---- MODULE Spec2Model ----
(***************************************************************************)
(* The rule-evaluation and formula-sandbox engine of the stock screener:    *)
(*   backend/app/engine/formula_parser.py  (tokenize, validate, evaluate)   *)
(*   backend/app/engine/operators.py       (comparison and cross operators) *)
(*   backend/app/engine/screener.py        (apply_rule, run_screen)         *)
(*                                                                         *)
(* A Python string is a sequence of one-character strings, so that the      *)
(* scanner can index it: "ma5" is <<"m", "a", "5">>.                        *)
(***************************************************************************)
EXTENDS Integers, Sequences, FiniteSets, TLC

VARIABLES
    df,         \* the panel (a DataFrame)
    \* the formula sandbox on its own
    formula,    \* the expression handed to validate_formula / safe_eval_formula
    verdict,    \* what validate_formula returned for it (NoVerdict before the call)
    evalLog,    \* the expressions that reached df.eval
    evalRes,    \* what safe_eval_formula did: "none", "added" or "ValueError"
    \* apply_rule on its own
    rule,       \* the rule_dict handed to apply_rule
    ruleOut,    \* what apply_rule did with it (NoOutcome before the call)
    \* one POST /screen request: screen_stocks -> run_screen
    db,         \* the database the loaders read
    request,    \* the ScreenRequest
    pc,         \* the position in run_screen
    loaded,     \* the panel as the loader returned it
    flog,       \* per formula handled so far, what became of it
    latest_date,\* run_screen's latest_date (NoDate while unset)
    masks,      \* the masks of the rules evaluated so far
    rlog,       \* per rule evaluated so far, the warning apply_rule logged
    combined,   \* the composed mask
    filtered,   \* the rows of df[combined], then without duplicates
    exc,        \* the exception that left run_screen ("none" if none)
    response,   \* the ScreenResponse (NoResponse until returned)
    \* several POST /screen requests at once, on one event loop
    calls       \* per invocation of screen_stocks, its request and its locals

fvars == <<formula, verdict, evalLog, evalRes>>
rvars == <<rule, ruleOut>>
svars == <<db, request, pc, loaded, flog, latest_date, masks, rlog, combined,
           filtered, exc, response>>
cvars == <<calls>>
vars == <<df, fvars, rvars, svars, cvars>>

----------------------------------------------------------------------------
(* Names that occur in the source as string literals. *)

N_open           == <<"o", "p", "e", "n">>
N_high           == <<"h", "i", "g", "h">>
N_low            == <<"l", "o", "w">>
N_close          == <<"c", "l", "o", "s", "e">>
N_volume         == <<"v", "o", "l", "u", "m", "e">>
N_ma5            == <<"m", "a", "5">>
N_ma10           == <<"m", "a", "1", "0">>
N_ma20           == <<"m", "a", "2", "0">>
N_ma60           == <<"m", "a", "6", "0">>
N_rsi14          == <<"r", "s", "i", "1", "4">>
N_pe_ratio       == <<"p", "e", "_", "r", "a", "t", "i", "o">>
N_eps            == <<"e", "p", "s">>
N_foreign_buy    == <<"f", "o", "r", "e", "i", "g", "n", "_", "b", "u", "y">>
N_trust_buy      == <<"t", "r", "u", "s", "t", "_", "b", "u", "y">>
N_margin_balance == <<"m", "a", "r", "g", "i", "n", "_", "b", "a", "l", "a", "n", "c", "e">>
N_change_percent == <<"c", "h", "a", "n", "g", "e", "_", "p", "e", "r", "c", "e", "n", "t">>
N_ticker_id      == <<"t", "i", "c", "k", "e", "r", "_", "i", "d">>
N_date           == <<"d", "a", "t", "e">>
N_name           == <<"n", "a", "m", "e">>
N_market_type    == <<"m", "a", "r", "k", "e", "t", "_", "t", "y", "p", "e">>
N_industry       == <<"i", "n", "d", "u", "s", "t", "r", "y">>
N_avg_ma         == <<"a", "v", "g", "_", "m", "a">>

(* formula_parser.py:12-25 *)
ALLOWED_FIELDS ==
    { N_open, N_high, N_low, N_close, N_volume,
      N_ma5, N_ma10, N_ma20, N_ma60,
      N_rsi14,
      N_pe_ratio, N_eps,
      N_foreign_buy, N_trust_buy, N_margin_balance,
      N_change_percent }

(* formula_parser.py:28 *)
ALLOWED_OPERATORS == { <<"+">>, <<"-">>, <<"*">>, <<"/">>, <<"(">>, <<")">>, <<" ">> }

(* formula_parser.py:31-32 *)
MAX_FORMULA_LENGTH == 500
MAX_TOKEN_COUNT == 50

----------------------------------------------------------------------------
(* Character classes of TOKEN_PATTERN (formula_parser.py:35):               *)
(*   [a-zA-Z_][a-zA-Z0-9_]* | [0-9]+\.?[0-9]* | [+\-*/()\s]                 *)

LowerLetters ==
    <<"a", "b", "c", "d", "e", "f", "g", "h", "i", "j", "k", "l", "m",
      "n", "o", "p", "q", "r", "s", "t", "u", "v", "w", "x", "y", "z">>
UpperLetters ==
    <<"A", "B", "C", "D", "E", "F", "G", "H", "I", "J", "K", "L", "M",
      "N", "O", "P", "Q", "R", "S", "T", "U", "V", "W", "X", "Y", "Z">>

Range(s) == { s[i] : i \in DOMAIN s }

IdentStart == Range(LowerLetters) \cup Range(UpperLetters) \cup {"_"}
Digits     == {"0", "1", "2", "3", "4", "5", "6", "7", "8", "9"}
IdentChars == IdentStart \cup Digits
Whitespace == {" ", "\t", "\n", "\r"}
OpChars    == {"+", "-", "*", "/", "(", ")"}

SetMin(S) == CHOOSE x \in S : \A y \in S : x <= y
SetMax(S) == CHOOSE x \in S : \A y \in S : x >= y

(* The first index >= i of s whose character is not in set (Len(s)+1 if none): *)
(* the end of a greedy run [set]* that starts at i.                           *)
RECURSIVE RunEnd(_, _, _)
RunEnd(s, i, set) ==
    IF i <= Len(s) /\ s[i] \in set THEN RunEnd(s, i + 1, set) ELSE i

(* re.match of TOKEN_PATTERN at position i: the index after the match, or 0   *)
(* when no alternative matches there.                                         *)
TOKEN_PATTERN(s, i) ==
    IF s[i] \in IdentStart THEN RunEnd(s, i + 1, IdentChars)
    ELSE IF s[i] \in Digits THEN
        LET j == RunEnd(s, i + 1, Digits)
            k == IF j <= Len(s) /\ s[j] = "." THEN j + 1 ELSE j
        IN  RunEnd(s, k, Digits)
    ELSE IF s[i] \in OpChars \cup Whitespace THEN i + 1
    ELSE 0

(* TOKEN_PATTERN.findall(formula): the matches left to right; a position     *)
(* where nothing matches is stepped over. The loops over a string are        *)
(* written as scans of nested blocks (of ScanFan * ScanFan, ScanFan and 1    *)
(* positions), which keeps the nesting of the definitions shallow on a       *)
(* 500-character string and changes nothing in the result.                   *)
ScanFan == 8

(* One step of findall at position i: the match there, or the position       *)
(* stepped over.                                                             *)
ScanStep(s, i) ==
    LET e == TOKEN_PATTERN(s, i)
    IN  IF e = 0 THEN [toks |-> << >>, dropped |-> 1, next |-> i + 1]
        ELSE [toks |-> <<SubSeq(s, i, e - 1)>>, dropped |-> 0, next |-> e]

(* The matches that start at positions i .. stop-1, the number of positions  *)
(* stepped over, and the position where the scan goes on; w is the width of  *)
(* the blocks it is cut in.                                                  *)
RECURSIVE ScanRange(_, _, _, _)
ScanRange(s, i, stop, w) ==
    IF i > Len(s) \/ i >= stop THEN [toks |-> << >>, dropped |-> 0, next |-> i]
    ELSE LET b == IF w = 1 THEN ScanStep(s, i)
                  ELSE ScanRange(s, i, IF i + w < stop THEN i + w ELSE stop, w \div ScanFan)
             r == ScanRange(s, b.next, stop, w)
         IN  [toks |-> b.toks \o r.toks, dropped |-> b.dropped + r.dropped, next |-> r.next]

Scan(s) == ScanRange(s, 1, Len(s) + 1, ScanFan * ScanFan)

findall(s) == Scan(s).toks

(* str.strip() *)
strip(t) ==
    LET keep == { i \in 1..Len(t) : t[i] \notin Whitespace }
    IN  IF keep = {} THEN << >> ELSE SubSeq(t, SetMin(keep), SetMax(keep))

NonBlank(t) == strip(t) # << >>

(* formula_parser.py:38-41 *)
tokenize(s) ==
    LET tokens == SelectSeq(findall(s), NonBlank)
    IN  [ i \in 1..Len(tokens) |-> strip(tokens[i]) ]

----------------------------------------------------------------------------
(* float(s) of Python, as far as is_number needs it: the words inf, infinity *)
(* and nan in any case, with an optional sign, or a decimal literal          *)
(* digits[.digits] / .digits with an optional sign. (Exponents and           *)
(* underscores never occur in a token: a token that starts with a digit      *)
(* holds digits and at most one point only.)                                 *)

lower(c) ==
    IF \E i \in 1..26 : UpperLetters[i] = c
    THEN LowerLetters[CHOOSE i \in 1..26 : UpperLetters[i] = c]
    ELSE c

casefold(s) == [ i \in 1..Len(s) |-> lower(s[i]) ]

FloatWords ==
    { <<"i", "n", "f">>, <<"i", "n", "f", "i", "n", "i", "t", "y">>, <<"n", "a", "n">> }

IsDecimal(s) ==
    /\ Len(s) > 0
    /\ \A i \in 1..Len(s) : s[i] \in Digits \cup {"."}
    /\ Cardinality({ i \in 1..Len(s) : s[i] = "." }) <= 1
    /\ \E i \in 1..Len(s) : s[i] \in Digits

Unsigned(s) == IF Len(s) > 0 /\ s[1] \in {"+", "-"} THEN Tail(s) ELSE s

float_accepts(s) ==
    LET body == Unsigned(strip(s))
    IN  casefold(body) \in FloatWords \/ IsDecimal(body)

(* formula_parser.py:44-50 *)
is_number(s) == float_accepts(s)

----------------------------------------------------------------------------
(* validate_formula (formula_parser.py:53-94). The error messages are named  *)
(* after the kinds of FormulaError.                                          *)

NoVerdict == [ok |-> FALSE, err |-> "NotRun", tok |-> << >>]
Accept    == [ok |-> TRUE, err |-> "", tok |-> << >>]
Reject(kind, t) == [ok |-> FALSE, err |-> kind, tok |-> t]

(* formula_parser.py:60 *)
IsBlank(s) == s = << >> \/ strip(s) = << >>

TooLongOffByOne(s) == Len(s) >= MAX_FORMULA_LENGTH

(* formula_parser.py:63 *)
TooLong(s) == Len(s) > MAX_FORMULA_LENGTH

TooComplexOffByOne(tokens) == Len(tokens) > MAX_TOKEN_COUNT + 1

(* formula_parser.py:70 *)
TooComplex(tokens) == Len(tokens) > MAX_TOKEN_COUNT

(* formula_parser.py:74-79: the three ways a token passes. *)
TokenAllowed(t) ==
    \/ t \in ALLOWED_OPERATORS
    \/ is_number(t)
    \/ t \in ALLOWED_FIELDS

(* formula_parser.py:83-92, the paren-depth loop over tokens i .. stop-1,    *)
(* entered with the given depth: the depth it ends with, or -1 as soon as    *)
(* the depth has gone negative. (In blocks of width w as in ScanRange.)      *)
DepthStep(tokens, i, depth) ==
    IF tokens[i] = <<"(">> THEN depth + 1
    ELSE IF tokens[i] = <<")">> THEN depth - 1
    ELSE depth

RECURSIVE DepthScan(_, _, _, _, _)
DepthScan(tokens, i, stop, depth, w) ==
    IF depth < 0 THEN -1
    ELSE IF i >= stop THEN depth
    ELSE LET nxt == IF i + w < stop THEN i + w ELSE stop
             d == IF w = 1 THEN DepthStep(tokens, i, depth)
                  ELSE DepthScan(tokens, i, nxt, depth, w \div ScanFan)
         IN  DepthScan(tokens, nxt, stop, d, w)

ParensEndOnly(tokens) ==
    Cardinality({ i \in 1..Len(tokens) : tokens[i] = <<"(">> })
        = Cardinality({ i \in 1..Len(tokens) : tokens[i] = <<")">> })

ParensBalanced(tokens) == DepthScan(tokens, 1, Len(tokens) + 1, 0, ScanFan) = 0

(* validate_formula without the whitelist check of its token loop. *)
ValidateWithoutWhitelist(s) ==
    IF IsBlank(s) THEN Reject("Empty", << >>)
    ELSE IF TooLong(s) THEN Reject("TooLong", << >>)
    ELSE LET tokens == tokenize(s)
         IN  IF tokens = << >> THEN Reject("ParseError", << >>)
             ELSE IF TooComplex(tokens) THEN Reject("TooComplex", << >>)
             ELSE IF ~ParensBalanced(tokens) THEN Reject("UnbalancedParens", << >>)
             ELSE Accept

(* validate_formula, had it refused a name followed by a parenthesis. *)
ValidateRejectingCalls(s) ==
    IF IsBlank(s) THEN Reject("Empty", << >>)
    ELSE IF TooLong(s) THEN Reject("TooLong", << >>)
    ELSE LET tokens == tokenize(s)
             bad == { i \in 1..Len(tokens) : ~TokenAllowed(tokens[i]) }
             calls_at == { i \in 1..(Len(tokens) - 1) :
                             tokens[i][1] \in IdentStart /\ tokens[i + 1] = <<"(">> }
         IN  IF tokens = << >> THEN Reject("ParseError", << >>)
             ELSE IF TooComplex(tokens) THEN Reject("TooComplex", << >>)
             ELSE IF bad # {} THEN Reject("DisallowedToken", tokens[SetMin(bad)])
             ELSE IF calls_at # {} THEN Reject("CallSyntax", tokens[SetMin(calls_at)])
             ELSE IF ~ParensBalanced(tokens) THEN Reject("UnbalancedParens", << >>)
             ELSE Accept

(* formula_parser.py:53-94 *)
validate_formula(s) ==
    IF IsBlank(s) THEN Reject("Empty", << >>)
    ELSE IF TooLong(s) THEN Reject("TooLong", << >>)
    ELSE LET tokens == tokenize(s)
             bad == { i \in 1..Len(tokens) : ~TokenAllowed(tokens[i]) }
         IN  IF tokens = << >> THEN Reject("ParseError", << >>)
             ELSE IF TooComplex(tokens) THEN Reject("TooComplex", << >>)
             ELSE IF bad # {} THEN Reject("DisallowedToken", tokens[SetMin(bad)])
             ELSE IF ~ParensBalanced(tokens) THEN Reject("UnbalancedParens", << >>)
             ELSE Accept

----------------------------------------------------------------------------
(* Cell values. A number is an exact rational n/d with d > 0 (the model's   *)
(* abstraction of a float, without rounding and without a signed zero); d = 0 *)
(* holds the IEEE-754 specials: 0/0 is NaN (also a null cell), 1/0 is +inf,  *)
(* -1/0 is -inf. A text cell (ticker_id, name, ...) holds the index of the   *)
(* text and a date cell its day number.                                      *)

Abs(x) == IF x < 0 THEN -x ELSE x
Sign(x) == IF x < 0 THEN -1 ELSE IF x > 0 THEN 1 ELSE 0

RECURSIVE GCD(_, _)
GCD(a, b) == IF b = 0 THEN a ELSE GCD(b, a % b)

Num(n, d) ==
    LET g == GCD(Abs(n), Abs(d))
    IN  [k |-> "num", n |-> (Sign(d) * n) \div g, d |-> Abs(d) \div g]
Int2Num(i) == [k |-> "num", n |-> i, d |-> 1]
NaN    == [k |-> "num", n |-> 0, d |-> 0]
PosInf == [k |-> "num", n |-> 1, d |-> 0]
NegInf == [k |-> "num", n |-> -1, d |-> 0]
Text(i) == [k |-> "text", n |-> i, d |-> 1]
Day(i)  == [k |-> "date", n |-> i, d |-> 1]

IsNaN(a) == a.d = 0 /\ a.n = 0
IsInf(a) == a.d = 0 /\ a.n # 0
InfOf(sgn) == IF sgn < 0 THEN NegInf ELSE PosInf

Neg(a) == [k |-> "num", n |-> -a.n, d |-> a.d]

Add(a, b) ==
    IF IsNaN(a) \/ IsNaN(b) THEN NaN
    ELSE IF IsInf(a) /\ IsInf(b) THEN (IF a.n = b.n THEN a ELSE NaN)
    ELSE IF IsInf(a) THEN a
    ELSE IF IsInf(b) THEN b
    ELSE Num(a.n * b.d + b.n * a.d, a.d * b.d)

Sub(a, b) == Add(a, Neg(b))

Mul(a, b) ==
    IF IsNaN(a) \/ IsNaN(b) THEN NaN
    ELSE IF IsInf(a) \/ IsInf(b)
         THEN (IF a.n = 0 \/ b.n = 0 THEN NaN ELSE InfOf(Sign(a.n) * Sign(b.n)))
    ELSE Num(a.n * b.n, a.d * b.d)

Div(a, b) ==
    IF IsNaN(a) \/ IsNaN(b) THEN NaN
    ELSE IF IsInf(a) /\ IsInf(b) THEN NaN
    ELSE IF IsInf(a) THEN InfOf(a.n * (IF b.n < 0 THEN -1 ELSE 1))
    ELSE IF IsInf(b) THEN Int2Num(0)
    ELSE IF b.n = 0 THEN (IF a.n = 0 THEN NaN ELSE InfOf(a.n))
    ELSE Num(a.n * b.d, a.d * b.n)

----------------------------------------------------------------------------
(* A DataFrame: its set of column names and its rows, each a function from  *)
(* the column names to cells.                                                *)

Columns(fr) == fr.cols
NRows(fr) == Len(fr.rows)

(* df[name] = col : replaces the column if it exists, appends it otherwise. *)
SetColumn(fr, cname, col) ==
    [cols |-> fr.cols \cup {cname},
     rows |-> [ i \in 1..Len(fr.rows) |->
                  [ c \in fr.cols \cup {cname} |->
                      IF c = cname THEN col[i] ELSE fr.rows[i][c] ] ]]

----------------------------------------------------------------------------
(* df.eval(formula, engine="numexpr") (formula_parser.py:117), the table     *)
(* library's evaluator: Python's lexer and expression grammar restricted to  *)
(* names, decimal literals, unary and binary + - * / and parentheses, with   *)
(* IEEE-754 division. Whatever else it is handed (a character outside this   *)
(* alphabet, the operators ** and //) is left open: it may raise or return   *)
(* a column.                                                                 *)

DigitSeq == <<"0", "1", "2", "3", "4", "5", "6", "7", "8", "9">>
DigitVal(c) == (CHOOSE i \in 1..10 : DigitSeq[i] = c) - 1

RECURSIVE Pow10(_)
Pow10(e) == IF e = 0 THEN 1 ELSE 10 * Pow10(e - 1)

RECURSIVE DigitsVal(_, _)
DigitsVal(ds, acc) ==
    IF ds = << >> THEN acc ELSE DigitsVal(Tail(ds), 10 * acc + DigitVal(Head(ds)))

(* The value of a decimal literal  digits[.digits]  or  .digits *)
LiteralValue(s) ==
    LET ds == SelectSeq(s, LAMBDA c : c \in Digits)
        pt == { i \in 1..Len(s) : s[i] = "." }
        frac == IF pt = {} THEN 0 ELSE Len(s) - SetMin(pt)
    IN  Num(DigitsVal(ds, 0), Pow10(frac))

(* Python rejects an integer literal with a leading zero, unless it is all zeros. *)
LiteralOk(s) ==
    ~ ( /\ Len(s) > 1
        /\ s[1] = "0"
        /\ \A i \in 1..Len(s) : s[i] \in Digits
        /\ \E i \in 1..Len(s) : s[i] # "0" )

PyBlank == {" ", "\t"}

(* The end (exclusive) and kind of the Python token that starts at i. *)
PyTokenAt(s, i) ==
    IF s[i] \in IdentStart THEN [k |-> "name", e |-> RunEnd(s, i + 1, IdentChars)]
    ELSE IF s[i] \in Digits THEN
        LET j == RunEnd(s, i + 1, Digits)
        IN  [k |-> "num",
             e |-> IF j <= Len(s) /\ s[j] = "." THEN RunEnd(s, j + 1, Digits) ELSE j]
    ELSE IF s[i] = "." THEN
        IF i < Len(s) /\ s[i + 1] \in Digits
        THEN [k |-> "num", e |-> RunEnd(s, i + 1, Digits)]
        ELSE [k |-> "dot", e |-> i + 1]
    ELSE IF s[i] \in {"*", "/"} /\ i < Len(s) /\ s[i + 1] = s[i]
        THEN [k |-> "open", e |-> i + 2]
    ELSE IF s[i] \in OpChars THEN [k |-> "op", e |-> i + 1]
    ELSE [k |-> "open", e |-> i + 1]

(* One step of the lexer at position i: a blank is skipped. *)
PyLexStep(s, i) ==
    IF s[i] \in PyBlank THEN [toks |-> << >>, next |-> i + 1]
    ELSE LET t == PyTokenAt(s, i)
         IN  [toks |-> <<[k |-> t.k, s |-> SubSeq(s, i, t.e - 1)]>>, next |-> t.e]

(* The tokens that start at positions i .. stop-1 and where the lexer goes   *)
(* on, in blocks of width w as in ScanRange.                                 *)
RECURSIVE PyLexRange(_, _, _, _)
PyLexRange(s, i, stop, w) ==
    IF i > Len(s) \/ i >= stop THEN [toks |-> << >>, next |-> i]
    ELSE LET b == IF w = 1 THEN PyLexStep(s, i)
                  ELSE PyLexRange(s, i, IF i + w < stop THEN i + w ELSE stop, w \div ScanFan)
             r == PyLexRange(s, b.next, stop, w)
         IN  [toks |-> b.toks \o r.toks, next |-> r.next]

PyLex(s) == PyLexRange(s, 1, Len(s) + 1, ScanFan * ScanFan).toks

PFail == [ok |-> FALSE, pos |-> 0, val |-> NaN]
POk(p, v) == [ok |-> TRUE, pos |-> p, val |-> v]
IsOp(t, p, c) == p <= Len(t) /\ t[p].k = "op" /\ t[p].s = <<c>>

(* Names resolve to the row's columns first, then to pandas' globals inf, Inf. *)
ResolveName(row, n) ==
    IF n \in DOMAIN row THEN POk(0, row[n])
    ELSE IF n \in { <<"i", "n", "f">>, <<"I", "n", "f">> } THEN POk(0, PosInf)
    ELSE PFail

RECURSIVE PExpr(_, _, _), PExprRest(_, _, _, _), PTerm(_, _, _),
          PTermRest(_, _, _, _), PFactor(_, _, _), PAtom(_, _, _)

PExpr(t, p, row) ==
    LET a == PTerm(t, p, row)
    IN  IF a.ok THEN PExprRest(t, a.pos, a.val, row) ELSE PFail

PExprRest(t, p, acc, row) ==
    IF IsOp(t, p, "+") \/ IsOp(t, p, "-") THEN
        LET b == PTerm(t, p + 1, row)
        IN  IF ~b.ok THEN PFail
            ELSE PExprRest(t, b.pos,
                           IF IsOp(t, p, "+") THEN Add(acc, b.val) ELSE Sub(acc, b.val),
                           row)
    ELSE POk(p, acc)

PTerm(t, p, row) ==
    LET a == PFactor(t, p, row)
    IN  IF a.ok THEN PTermRest(t, a.pos, a.val, row) ELSE PFail

PTermRest(t, p, acc, row) ==
    IF IsOp(t, p, "*") \/ IsOp(t, p, "/") THEN
        LET b == PFactor(t, p + 1, row)
        IN  IF ~b.ok THEN PFail
            ELSE PTermRest(t, b.pos,
                           IF IsOp(t, p, "*") THEN Mul(acc, b.val) ELSE Div(acc, b.val),
                           row)
    ELSE POk(p, acc)

PFactor(t, p, row) ==
    IF IsOp(t, p, "+") THEN PFactor(t, p + 1, row)
    ELSE IF IsOp(t, p, "-") THEN
        LET a == PFactor(t, p + 1, row)
        IN  IF a.ok THEN POk(a.pos, Neg(a.val)) ELSE PFail
    ELSE PAtom(t, p, row)

PAtom(t, p, row) ==
    IF p > Len(t) THEN PFail
    ELSE IF t[p].k = "name" THEN
        LET r == ResolveName(row, t[p].s)
        IN  IF r.ok /\ r.val.k = "num" THEN POk(p + 1, r.val) ELSE PFail
    ELSE IF t[p].k = "num" THEN
        IF LiteralOk(t[p].s) THEN POk(p + 1, LiteralValue(t[p].s)) ELSE PFail
    ELSE IF IsOp(t, p, "(") THEN
        LET a == PExpr(t, p + 1, row)
        IN  IF a.ok /\ IsOp(t, a.pos, ")") THEN POk(a.pos + 1, a.val) ELSE PFail
    ELSE PFail

(* The expression's value on one row; ok is FALSE when it does not parse, or *)
(* names something unknown, or calls something (an atom followed by "(").    *)
EvalRow(t, row) ==
    LET r == PExpr(t, 1, row)
    IN  IF r.ok /\ r.pos = Len(t) + 1 THEN r ELSE PFail

Raised == [raised |-> TRUE, col |-> << >>]
Returned(col) == [raised |-> FALSE, col |-> col]

OpenValues == { NaN, Int2Num(0), Int2Num(1) }

(* The possible outcomes of df.eval(expr). *)
df_eval(fr, expr) ==
    LET t == PyLex(expr)
        n == Len(fr.rows)
    IN  IF \E i \in 1..Len(t) : t[i].k = "open"
        THEN {Raised} \cup { Returned([ i \in 1..n |-> v ]) : v \in OpenValues }
        ELSE IF \E i \in 1..n : ~EvalRow(t, fr.rows[i]).ok
        THEN {Raised}
        ELSE { Returned([ i \in 1..n |-> EvalRow(t, fr.rows[i]).val ]) }

(* safe_eval_formula (formula_parser.py:97-122): its possible results. Every *)
(* failure is a ValueError; reached says whether df.eval was called.         *)
safe_eval_formula(fr, cname, expr) ==
    LET v == validate_formula(expr)
    IN  IF ~v.ok
        THEN { [raised |-> TRUE, reached |-> FALSE, err |-> v.err, tok |-> v.tok,
                df |-> fr] }
        ELSE { IF o.raised
               THEN [raised |-> TRUE, reached |-> TRUE, err |-> "EvalError",
                     tok |-> << >>, df |-> fr]
               ELSE [raised |-> FALSE, reached |-> TRUE, err |-> "", tok |-> << >>,
                     df |-> SetColumn(fr, cname, o.col)]
               : o \in df_eval(fr, expr) }

----------------------------------------------------------------------------
(* Cells that are not numbers, and whole columns.                            *)

(* Python's None: a NULL of the database in a column of texts.               *)
None == [k |-> "none", n |-> 0, d |-> 1]

(* pd.isna(a) *)
IsNull(a) == a.k = "none" \/ (a.k = "num" /\ IsNaN(a))

(* df[c] *)
Column(fr, c) == [ i \in 1..NRows(fr) |-> fr.rows[i][c] ]

(* pd.DataFrame() *)
EmptyFrame == [cols |-> {}, rows |-> << >>]

(* df.empty, had no frame been taken for empty. *)
NeverEmpty(fr) == FALSE

(* df.empty *)
IsEmpty(fr) == fr.cols = {} \/ fr.rows = << >>

(* pd.Series(v, index=df.index) *)
Broadcast(fr, v) == [ i \in 1..NRows(fr) |-> v ]

----------------------------------------------------------------------------
(* operators.py. A comparison of two cells is "T", "F" or "E": the element   *)
(* comparison raised TypeError, and with it the comparison of the columns.   *)
(* A null on either side compares false; cells of different kinds (a text or *)
(* a date against a number) are unequal and cannot be ordered.               *)

Less(a, b) ==
    IF a.k # "num" THEN a.n < b.n
    ELSE IF IsInf(a) /\ IsInf(b) THEN a.n < b.n
    ELSE a.n * b.d < b.n * a.d

(* The comparison, had a missing value on either side compared true. *)
CmpCellNullHolds(a, b, ordering, holds) ==
    IF IsNull(a) \/ IsNull(b) THEN "T"
    ELSE IF a.k # b.k THEN (IF ordering THEN "E" ELSE "F")
    ELSE IF holds THEN "T" ELSE "F"

CmpCell(a, b, ordering, holds) ==
    IF IsNull(a) \/ IsNull(b) THEN "F"
    ELSE IF a.k # b.k THEN (IF ordering THEN "E" ELSE "F")
    ELSE IF holds THEN "T" ELSE "F"

compare_gt(a, b)  == CmpCell(a, b, TRUE, Less(b, a))
compare_lt(a, b)  == CmpCell(a, b, TRUE, Less(a, b))
compare_eq(a, b)  == CmpCell(a, b, FALSE, a = b)
compare_gte(a, b) == CmpCell(a, b, TRUE, ~Less(a, b))
compare_lte(a, b) == CmpCell(a, b, TRUE, ~Less(b, a))

(* The keys of OPERATOR_MAP and of CROSS_OPERATORS. *)
OPERATOR_MAP == {">", "<", "=", ">=", "<="}
CROSS_OPERATORS == {"CROSS_UP", "CROSS_DOWN"}

(* OPERATOR_MAP[op](a, b), element by element *)
compare_fn(op, xs, ys) ==
    [ i \in 1..Len(xs) |->
        CASE op = ">"  -> compare_gt(xs[i], ys[i])
          [] op = "<"  -> compare_lt(xs[i], ys[i])
          [] op = "="  -> compare_eq(xs[i], ys[i])
          [] op = ">=" -> compare_gte(xs[i], ys[i])
          [] op = "<=" -> compare_lte(xs[i], ys[i]) ]

AnyRaised(rs) == \E i \in 1..Len(rs) : rs[i] = "E"

(* What a call of apply_rule or of an operator did: the mask it returned or  *)
(* the exception it raised, and the warning it logged.                       *)
NoOutcome == [raised |-> FALSE, exc |-> "NotRun", mask |-> << >>, warned |-> "none"]
ReturnMask(m) == [raised |-> FALSE, exc |-> "none", mask |-> m, warned |-> "none"]
Raise(e) == [raised |-> TRUE, exc |-> e, mask |-> << >>, warned |-> "none"]

(* compare_fn(series_a, target).fillna(False) *)
Compared(rs) ==
    IF AnyRaised(rs) THEN Raise("TypeError")
    ELSE ReturnMask([ i \in 1..Len(rs) |-> rs[i] = "T" ])

(* df[c].shift(1), were the rows not grouped: the value of the row above. *)
PlainShift(fr, c) ==
    [ i \in 1..NRows(fr) |-> IF i = 1 THEN NaN ELSE fr.rows[i - 1][c] ]

(* df.groupby("ticker_id")[c].shift(1): the cell of the previous row of the  *)
(* same ticker_id, in the order of the panel; NaN where there is none, and in *)
(* a row whose ticker_id is null.                                            *)
GroupShift(fr, c) ==
    [ i \in 1..NRows(fr) |->
        LET key == fr.rows[i][N_ticker_id]
            before == { j \in 1..(i - 1) : fr.rows[j][N_ticker_id] = key }
        IN  IF IsNull(key) \/ before = {} THEN NaN
            ELSE fr.rows[SetMax(before)][c] ]

(* A rule's target: a float or a str. *)
FloatValue(x) == [k |-> "float", num |-> x, s |-> << >>]
StrValue(s) == [k |-> "str", num |-> Int2Num(0), s |-> s]

(* The body shared by cross_up and cross_down:                               *)
(*   mask = (prev_field <first> prev_target) & (df[field] <second> target)   *)
cross(fr, field, target, first, second) ==
    IF N_ticker_id \notin Columns(fr) THEN Raise("KeyError")
    ELSE IF target.k = "str" /\ target.s \notin Columns(fr) THEN Raise("KeyError")
    ELSE LET prev_field == GroupShift(fr, field)
             prev_target == IF target.k = "str" THEN GroupShift(fr, target.s)
                            ELSE Broadcast(fr, target.num)
             now_target == IF target.k = "str" THEN Column(fr, target.s)
                           ELSE Broadcast(fr, target.num)
             was == compare_fn(first, prev_field, prev_target)
             is == compare_fn(second, Column(fr, field), now_target)
         IN  IF AnyRaised(was) \/ AnyRaised(is) THEN Raise("TypeError")
             ELSE ReturnMask([ i \in 1..NRows(fr) |-> was[i] = "T" /\ is[i] = "T" ])

(* cross_down, had it been left with the comparisons of cross_up. *)
CrossDownAsUp(fr, field, target) == cross(fr, field, target, "<", ">=")

cross_up(fr, field, target) == cross(fr, field, target, "<", ">=")
cross_down(fr, field, target) == cross(fr, field, target, ">", "<=")

----------------------------------------------------------------------------
(* screener.py: apply_rule.                                                  *)

(* float(s) for a str within the fragment float_accepts covers. *)
float_value(s) ==
    LET t == strip(s)
        body == Unsigned(t)
        neg == Len(t) > 0 /\ t[1] = "-"
        mag == IF casefold(body) = <<"n", "a", "n">> THEN NaN
               ELSE IF casefold(body) \in FloatWords THEN PosInf
               ELSE LiteralValue(body)
    IN  IF neg THEN Neg(mag) ELSE mag

(* float(target_value) *)
float_of(tv) ==
    IF tv.k = "float" THEN [ok |-> TRUE, val |-> tv.num]
    ELSE IF float_accepts(tv.s) THEN [ok |-> TRUE, val |-> float_value(tv.s)]
    ELSE [ok |-> FALSE, val |-> NaN]

RECURSIVE IntDigits(_)
IntDigits(n) ==
    IF n < 10 THEN <<DigitSeq[n + 1]>>
    ELSE IntDigits(n \div 10) \o <<DigitSeq[(n % 10) + 1]>>

ReprDigits == 16

RECURSIVE FracDigits(_, _, _)
FracDigits(r, d, left) ==
    IF r = 0 \/ left = 0 THEN << >>
    ELSE <<DigitSeq[((10 * r) \div d) + 1]>> \o FracDigits((10 * r) % d, d, left - 1)

(* str(x) of a float *)
repr_float(x) ==
    IF IsNaN(x) THEN <<"n", "a", "n">>
    ELSE IF IsInf(x)
         THEN (IF x.n < 0 THEN <<"-">> ELSE << >>) \o <<"i", "n", "f">>
    ELSE LET a == Abs(x.n)
             frac == FracDigits(a % x.d, x.d, ReprDigits)
         IN  (IF x.n < 0 THEN <<"-">> ELSE << >>)
             \o IntDigits(a \div x.d) \o <<".">>
             \o (IF frac = << >> THEN <<"0">> ELSE frac)

(* str(target_value) *)
str_of(tv) == IF tv.k = "str" THEN tv.s ELSE repr_float(tv.num)

(* return pd.Series(True, index=df.index), after the warning named *)
FailClosed(fr, warning) ==
    [raised |-> FALSE, exc |-> "none", mask |-> Broadcast(fr, FALSE), warned |-> warning]

FailOpen(fr, warning) ==
    [raised |-> FALSE, exc |-> "none", mask |-> Broadcast(fr, TRUE), warned |-> warning]

cross_fn(operator, fr, field, target) ==
    IF operator = "CROSS_UP" THEN cross_up(fr, field, target)
    ELSE cross_down(fr, field, target)

apply_rule(fr, rule_dict) ==
    LET field == rule_dict.field
        operator == rule_dict.operator
        target_type == rule_dict.target_type
        target_value == rule_dict.target_value
    IN  IF field \notin Columns(fr) THEN FailOpen(fr, "field")
        ELSE IF operator \in CROSS_OPERATORS THEN
            IF target_type = "field"
            THEN cross_fn(operator, fr, field, StrValue(str_of(target_value)))
            ELSE LET f == float_of(target_value)
                 IN  IF ~f.ok THEN Raise("ValueError")
                     ELSE cross_fn(operator, fr, field, FloatValue(f.val))
        ELSE IF operator \notin OPERATOR_MAP THEN FailOpen(fr, "operator")
        ELSE IF target_type = "field" THEN
            LET target_col == str_of(target_value)
            IN  IF target_col \notin Columns(fr) THEN FailOpen(fr, "target")
                ELSE Compared(compare_fn(operator, Column(fr, field),
                                         Column(fr, target_col)))
        ELSE LET f == float_of(target_value)
             IN  IF ~f.ok THEN Raise("ValueError")
                 ELSE Compared(compare_fn(operator, Column(fr, field),
                                          Broadcast(fr, f.val)))

----------------------------------------------------------------------------
(* The database (models/daily_price.py, daily_chip.py, ticker.py). A stored  *)
(* price row is known by its ticker and its day, unique by uq_date_ticker;   *)
(* db.prices is the rows in the order the database hands them out, db.tickers *)
(* the tickers that have a row in the tickers table, db.chips the (ticker,   *)
(* day) pairs that have a row in daily_chips. A NULL number is a NaN cell.   *)

PRICE_COLUMNS ==
    { N_ticker_id, N_date, N_open, N_high, N_low, N_close, N_volume, N_ma5,
      N_ma10, N_ma20, N_ma60, N_rsi14, N_pe_ratio, N_eps, N_change_percent }
TICKER_COLUMNS == { N_name, N_market_type, N_industry }
CHIP_COLUMNS == { N_foreign_buy, N_trust_buy, N_margin_balance }

(* The close of ticker t on day d alternates between 1 and 3 around the      *)
(* moving averages, which are 2; the other numbers are NULL.                 *)
DailyPrice(key) ==
    [ c \in PRICE_COLUMNS |->
        IF c = N_ticker_id THEN Text(key[1])
        ELSE IF c = N_date THEN Day(key[2])
        ELSE IF c = N_close THEN Int2Num(IF (key[1] + key[2]) % 2 = 0 THEN 1 ELSE 3)
        ELSE IF c \in {N_ma5, N_ma10, N_ma20} THEN Int2Num(2)
        ELSE IF c = N_volume THEN Int2Num(100 * key[1])
        ELSE NaN ]

(* Ticker t has name Text(t + 10); its market_type is set, its industry NULL. *)
Ticker(t) ==
    [ c \in TICKER_COLUMNS |->
        IF c = N_name THEN Text(t + 10)
        ELSE IF c = N_market_type THEN Text(20)
        ELSE None ]

DailyChip(key) ==
    [ c \in CHIP_COLUMNS |-> IF c = N_foreign_buy THEN Int2Num(5) ELSE NaN ]

Take(s, n) == SubSeq(s, 1, IF n < Len(s) THEN n ELSE Len(s))

(* .order_by(DailyPrice.date.desc()): rows of one day keep their order. *)
RECURSIVE ByDayDesc(_, _)
ByDayDesc(keys, days) ==
    IF days = {} THEN << >>
    ELSE LET d == SetMax(days)
         IN  SelectSeq(keys, LAMBDA k : k[2] = d) \o ByDayDesc(keys, days \ {d})

OrderByDateDesc(keys) == ByDayDesc(keys, { keys[i][2] : i \in 1..Len(keys) })

(* df.sort_values(["ticker_id", "date"]).reset_index(drop=True); the pairs   *)
(* (ticker_id, date) of a loaded panel are distinct.                         *)
SortByTickerAndDate(rows) ==
    SortSeq(rows, LAMBDA a, b :
        \/ a[N_ticker_id].n < b[N_ticker_id].n
        \/ a[N_ticker_id].n = b[N_ticker_id].n /\ a[N_date].n < b[N_date].n)

(* df.merge(right, on="ticker_id", how="left"): matches holds, per row of    *)
(* df, whether right has a row of that ticker_id and, if so, that row; no    *)
(* match leaves NaN.                                                         *)
MergeLeft(fr, cols, matches) ==
    [cols |-> fr.cols \cup cols,
     rows |-> [ i \in 1..Len(fr.rows) |->
                  [ c \in fr.cols \cup cols |->
                      IF c \in fr.cols THEN fr.rows[i][c]
                      ELSE IF matches[i].found THEN matches[i].row[c]
                      ELSE NaN ] ]]

MergeTickers(d, fr) ==
    IF d.tickers = {} THEN fr
    ELSE MergeLeft(fr, TICKER_COLUMNS,
                   [ i \in 1..NRows(fr) |->
                       LET t == fr.rows[i][N_ticker_id].n
                       IN  [found |-> t \in d.tickers, row |-> Ticker(t)] ])

(* The merge, had the chips been joined on ticker_id and date. *)
MergeChipsOnDate(d, fr, day) ==
    IF { k \in d.chips : k[2] = day } = {} THEN fr
    ELSE MergeLeft(fr, CHIP_COLUMNS,
                   [ i \in 1..NRows(fr) |->
                       LET key == <<fr.rows[i][N_ticker_id].n, fr.rows[i][N_date].n>>
                       IN  [found |-> key[2] = day /\ key \in d.chips, row |-> DailyChip(key)] ])

MergeChips(d, fr, day) ==
    IF { k \in d.chips : k[2] = day } = {} THEN fr
    ELSE MergeLeft(fr, CHIP_COLUMNS,
                   [ i \in 1..NRows(fr) |->
                       LET key == <<fr.rows[i][N_ticker_id].n, day>>
                       IN  [found |-> key \in d.chips, row |-> DailyChip(key)] ])

MaxDay(keys) == SetMax({ keys[i][2] : i \in 1..Len(keys) })

PriceFrame(keys) ==
    [cols |-> PRICE_COLUMNS, rows |-> [ i \in 1..Len(keys) |-> DailyPrice(keys[i]) ]]

(* screener.py:21-89 *)
load_latest_data(d) ==
    IF d.prices = << >> THEN EmptyFrame
    ELSE LET latest == MaxDay(d.prices)
             price_rows == SelectSeq(d.prices, LAMBDA k : k[2] = latest)
         IN  MergeChips(d, MergeTickers(d, PriceFrame(price_rows)), latest)

(* screener.py:92-157 *)
load_multi_day_data(d, days) ==
    LET rows == Take(OrderByDateDesc(d.prices), days * 2000)
    IN  IF rows = << >> THEN EmptyFrame
        ELSE LET merged == MergeChips(d, MergeTickers(d, PriceFrame(rows)), MaxDay(rows))
             IN  [cols |-> merged.cols, rows |-> SortByTickerAndDate(merged.rows)]

----------------------------------------------------------------------------
(* screener.py: run_screen and its helpers.                                  *)

(* The choice, had the snapshot been loaded for every request. *)
NeverMultiDay(req) == FALSE

(* screener.py:219-221 *)
needs_multi_day(req) ==
    \E i \in 1..Len(req.rules) : req.rules[i].operator \in {"CROSS_UP", "CROSS_DOWN"}

(* df["date"].max(): nulls are skipped; NaN if nothing is left. *)
ColumnMax(fr, c) ==
    LET cells == { fr.rows[i][c] : i \in 1..NRows(fr) }
        live == { a \in cells : ~IsNull(a) }
    IN  IF live = {} THEN NaN
        ELSE CHOOSE a \in live : \A b \in live : ~Less(a, b)

RECURSIVE Fold(_, _, _)
Fold(ms, acc, isAnd) ==
    IF ms = << >> THEN acc
    ELSE Fold(Tail(ms),
              [ i \in 1..Len(acc) |->
                  IF isAnd THEN acc[i] /\ Head(ms)[i] ELSE acc[i] \/ Head(ms)[i] ],
              isAnd)

(* The composition, had the request's logic been ignored: always OR. *)
CombineAny(fr, ms, logic) ==
    IF ms # << >> THEN Fold(Tail(ms), Head(ms), FALSE)
    ELSE Broadcast(fr, TRUE)

(* screener.py:250-260 *)
Combine(fr, ms, logic) ==
    IF ms # << >> THEN Fold(Tail(ms), Head(ms), logic = "AND")
    ELSE Broadcast(fr, TRUE)

(* df[combined] *)
Select(fr, mask) ==
    LET tagged == [ i \in 1..NRows(fr) |-> [row |-> fr.rows[i], keep |-> mask[i]] ]
        kept == SelectSeq(tagged, LAMBDA p : p.keep)
    IN  [ r \in 1..Len(kept) |-> kept[r].row ]

(* filtered.drop_duplicates(subset=["ticker_id"], keep="last") *)
RECURSIVE KeepLast(_, _, _)
KeepLast(rows, lo, hi) ==
    IF lo > hi THEN << >>
    ELSE IF lo = hi THEN <<rows[lo]>>
    ELSE LET mid == (lo + hi) \div 2
             later == KeepLast(rows, mid + 1, hi)
             ids == { later[i][N_ticker_id] : i \in 1..Len(later) }
         IN  SelectSeq(KeepLast(rows, lo, mid), LAMBDA r : r[N_ticker_id] \notin ids)
               \o later

DropDuplicatesKeepLast(rows) == KeepLast(rows, 1, Len(rows))

(* row.get(c, default) *)
RowGet(row, c, default) == IF c \in DOMAIN row THEN row[c] ELSE default

(* str(x): a text is itself; of any other cell, the text that spells it. *)
StrOf(a) ==
    IF a.k = "text" THEN a
    ELSE [k |-> (IF a.k = "num" THEN "str_num"
                 ELSE IF a.k = "date" THEN "str_date" ELSE "str_none"),
          n |-> a.n, d |-> a.d]

(* round(x, 4) *)
Round4(x) ==
    IF x.d = 0 THEN x
    ELSE Num(Sign(x.n) * ((2 * Abs(x.n) * 10000 + x.d) \div (2 * x.d)), 10000)

(* screener.py:301-308. Only null and numeric cells reach it. *)
_safe_float(val) ==
    IF IsNull(val) \/ val.k # "num" THEN None ELSE Round4(val)

(* screener.py:311-318: int() truncates, and raises OverflowError, which is  *)
(* not caught, for an infinity.                                              *)
_safe_int(val) ==
    IF IsNull(val) \/ val.k # "num" THEN [ok |-> TRUE, val |-> None]
    ELSE IF IsInf(val) THEN [ok |-> FALSE, val |-> None]
    ELSE [ok |-> TRUE, val |-> Int2Num(Sign(val.n) * (Abs(val.n) \div val.d))]

(* Optional[str] of TickerResult accepts None and a str. *)
OptionalStr(a) == a.k \in {"none", "text"}

FLOAT_FIELDS ==
    { N_close, N_change_percent, N_ma5, N_ma10, N_ma20, N_ma60, N_rsi14,
      N_pe_ratio, N_eps }
INT_FIELDS == { N_volume, N_foreign_buy, N_trust_buy, N_margin_balance }
RESULT_FIELDS ==
    { N_ticker_id, N_name, N_market_type, N_industry } \cup FLOAT_FIELDS \cup INT_FIELDS

(* screener.py:274-292: the TickerResult of a row, or the exception. *)
TickerResult(row) ==
    IF \E c \in INT_FIELDS : ~_safe_int(RowGet(row, c, None)).ok
    THEN [ok |-> FALSE, exc |-> "OverflowError", val |-> << >>]
    ELSE IF \E c \in {N_market_type, N_industry} : ~OptionalStr(RowGet(row, c, None))
    THEN [ok |-> FALSE, exc |-> "ValidationError", val |-> << >>]
    ELSE [ok |-> TRUE, exc |-> "none",
          val |-> [ c \in RESULT_FIELDS |->
                     IF c \in {N_ticker_id, N_name} THEN StrOf(RowGet(row, c, Text(0)))
                     ELSE IF c \in FLOAT_FIELDS THEN _safe_float(RowGet(row, c, None))
                     ELSE IF c \in INT_FIELDS THEN _safe_int(RowGet(row, c, None)).val
                     ELSE RowGet(row, c, None) ]]

NoResponse == [matched_count |-> -1, data |-> << >>, logic |-> "none"]
ScreenResponse(results, logic) ==
    [matched_count |-> Len(results), data |-> results, logic |-> logic]

NoDate == None

----------------------------------------------------------------------------
(* The databases and the requests of the model.                              *)

MaxPriceRows == 2
MaxFormulas == 2
MaxRules == 2

TickerIds == {1, 2}
Days == {1, 2}

SeqsUpTo(S, n) == UNION { [1..m -> S] : m \in 0..n }

DistinctSeqs(S, n) ==
    { s \in SeqsUpTo(S, n) : \A i, j \in 1..Len(s) : i # j => s[i] # s[j] }

(* Ticker 1 has rows on days 1 and 2 and none on day 3, the latest day. *)
Suspended ==
    [prices |-> << <<1, 1>>, <<1, 2>>, <<2, 3>> >>, tickers |-> {1, 2},
     chips |-> { <<1, 2>> }]

(* Ticker 1 always has its row in tickers, and its chips of day 2 are in.   *)
Databases ==
    { [prices |-> p, tickers |-> t, chips |-> c] :
        p \in DistinctSeqs(TickerIds \X Days, MaxPriceRows),
        t \in { {1}, {1, 2} },
        c \in { {<<1, 2>>} } }
    \cup { Suspended }

N_avg2 == <<"a", "v", "g", "2">>

Formula(cname, expr) == [name |-> cname, formula |-> expr]

FormulaPool ==
    { Formula(N_avg_ma, <<"(">> \o N_ma5 \o <<"+">> \o N_ma10 \o <<"+">> \o N_ma20
                          \o <<")", "/", "3">>),
      Formula(N_avg2, N_avg_ma \o <<"*", "2">>),
      Formula(N_foreign_buy, N_close),
      Formula(N_close, N_foreign_buy),
      Formula(N_ticker_id, N_close) }

Rule(f, op, tt, tv) ==
    [field |-> f, operator |-> op, target_type |-> tt, target_value |-> tv]

RulePool ==
    { Rule(N_close, ">", "value", FloatValue(Int2Num(2))),
      Rule(N_avg_ma, ">", "value", FloatValue(Int2Num(2))),
      Rule(N_close, ">=", "field", StrValue(N_avg_ma)),
      Rule(N_close, "CROSS_UP", "value", FloatValue(Int2Num(2))) }

ScreenRequest(l, rs, fs) == [logic |-> l, rules |-> rs, custom_formulas |-> fs]

(* Requests about their formulas: any formulas, at most one rule. They are   *)
(* sent to three databases: one day of ticker 1 (no chips of that day), two  *)
(* days of ticker 1, and the latest day of both tickers.                      *)
FormulaRequests ==
    { ScreenRequest("AND", rs, fs) :
        rs \in { << >> } \cup { <<r>> : r \in RulePool },
        fs \in SeqsUpTo(FormulaPool, MaxFormulas) }

FormulaDatabases ==
    { d \in Databases :
        /\ d.tickers = {1, 2}
        /\ d.prices \in { << <<1, 1>> >>,
                          << <<1, 1>>, <<1, 2>> >>,
                          << <<1, 2>>, <<2, 2>> >> } }

(* The formula that adds avg_ma, and one named after the date column. *)
RuleFormulas ==
    { g \in FormulaPool : g.name = N_avg_ma } \cup { Formula(N_date, N_close) }

(* Requests about their rules: any rules under either logic, with or without *)
(* one of these formulas. They are sent to every database.                   *)
RuleRequests ==
    { ScreenRequest(l, rs, fs) :
        l \in {"AND", "OR"},
        rs \in SeqsUpTo(RulePool, MaxRules),
        fs \in { << >> } \cup { <<f>> : f \in RuleFormulas } }

----------------------------------------------------------------------------
(* The values the variables of a part hold while another part runs.          *)

IdleF == formula = << >> /\ verdict = NoVerdict /\ evalLog = {} /\ evalRes = "none"
IdleR == rule = Rule(<< >>, "", "value", FloatValue(NaN)) /\ ruleOut = NoOutcome
IdleC == calls = << >>
IdleS ==
    /\ db = [prices |-> << >>, tickers |-> {}, chips |-> {}]
    /\ request = [logic |-> "AND", rules |-> << >>, custom_formulas |-> << >>]
    /\ pc = "idle"
    /\ loaded = EmptyFrame
    /\ flog = << >>
    /\ latest_date = NoDate
    /\ masks = << >>
    /\ rlog = << >>
    /\ combined = << >>
    /\ filtered = << >>
    /\ exc = "none"
    /\ response = NoResponse

----------------------------------------------------------------------------
(* Inputs of the formula sandbox. *)

MaxLexemes == 3
MaxSlack == 1

Lexemes ==
    { N_close, <<"i", "n", "f">>, <<"f", "o", "o">>,
      <<"1">>, <<".">>,
      <<"+">>, <<"(">>, <<")">>, <<" ">>, <<"@">> }

RECURSIVE Flatten(_)
Flatten(ss) == IF ss = << >> THEN << >> ELSE Head(ss) \o Flatten(Tail(ss))

Repeat(u, n) == [ i \in 1..(n * Len(u)) |-> u[((i - 1) % Len(u)) + 1] ]

ShortInputs ==
    { Flatten(ls) : ls \in UNION { [1..n -> Lexemes] : n \in 0..MaxLexemes } }

Around(c) == { n \in (c - MaxSlack)..(c + MaxSlack) : n >= 0 }

(* Expressions at the two limits: about MAX_TOKEN_COUNT tokens, about        *)
(* MAX_FORMULA_LENGTH characters, and both.                                  *)
LongInputs ==
    { Repeat(<<"1", " ">>, n) \o Repeat(<<" ">>, m) :
          n \in Around(MAX_TOKEN_COUNT),
          m \in {0} \cup Around(MAX_FORMULA_LENGTH - 2 * MAX_TOKEN_COUNT) }
    \cup { Repeat(<<" ">>, n) \o tl :
          n \in Around(MAX_FORMULA_LENGTH - 1),
          tl \in { << >>, <<"1">>, N_ma5, <<"@">>, <<"f", "o", "o">> } }
    \cup { Repeat(<<"+", "1">>, n) : n \in Around(MAX_FORMULA_LENGTH \div 2) }
    \cup { Repeat(<<"(", "1", ")">>, n) : n \in Around(MAX_TOKEN_COUNT \div 3) }

(* Expressions the specification and the source give as examples. *)
ExampleInputs ==
    { <<"(">> \o N_close,
      N_close \o <<")">>,
      <<"(", "(">> \o N_close \o <<")">>,
      <<"(">> \o N_ma5 \o <<"+">> \o N_ma10 \o <<"+">> \o N_ma20 \o <<")", "/", "3">>,
      <<"(">> \o N_ma5 \o <<" ", "+", " ">> \o N_ma10 \o <<" ", "+", " ">> \o N_ma20
          \o <<")", " ", "/", " ", "3">>,
      N_avg_ma \o <<"*", "2">>,
      N_close \o <<"(">> \o N_ma5 \o <<")">>,
      N_close \o <<" ", ">", " ", "5">>,
      N_close \o <<"[", "0", "]">>,
      N_close \o <<"=", "1">>,
      <<"n", "a", "n">>,
      <<"N", "a", "N">>,
      <<"i", "n", "f", "i", "n", "i", "t", "y">>,
      <<"I", "n", "f">>,
      <<"e-acute">>,
      N_close \o <<"e-acute">> }

Inputs == ShortInputs \cup LongInputs \cup ExampleInputs

(* A one-ticker panel for the sandbox on its own. *)
SandboxPanel ==
    [cols |-> {N_ticker_id, N_close, N_ma5},
     rows |-> << [ c \in {N_ticker_id, N_close, N_ma5} |->
                     IF c = N_ticker_id THEN Text(1)
                     ELSE IF c = N_close THEN Int2Num(3) ELSE Int2Num(2) ] >>]

Init_F ==
    /\ formula \in Inputs
    /\ verdict = NoVerdict
    /\ evalLog = {}
    /\ evalRes = "none"
    /\ df = SandboxPanel
    /\ IdleR
    /\ IdleS
    /\ IdleC

Validate ==
    /\ verdict = NoVerdict
    /\ verdict' = validate_formula(formula)
    /\ UNCHANGED <<formula, evalLog, evalRes, df, rvars, svars, cvars>>

SafeEval ==
    /\ evalRes = "none"
    /\ \E r \in safe_eval_formula(df, N_avg_ma, formula) :
          /\ df' = r.df
          /\ evalRes' = IF r.raised THEN "ValueError" ELSE "added"
          /\ evalLog' = IF r.reached THEN evalLog \cup {formula} ELSE evalLog
    /\ UNCHANGED <<formula, verdict, rvars, svars, cvars>>

Next_F == Validate \/ SafeEval

SpecFormula == Init_F /\ [][Next_F]_vars

----------------------------------------------------------------------------
(* apply_rule on its own: any panel of a few rows, any rule_dict.            *)

MaxPanelRows == 3

RULE_PANEL_COLUMNS == { N_ticker_id, N_close, N_ma5 }

PanelRow(t, c, m) ==
    [ col \in RULE_PANEL_COLUMNS |->
        IF col = N_ticker_id THEN Text(t) ELSE IF col = N_close THEN c ELSE m ]

(* The close is missing, 1 or 3 under an ma5 of 2, or 3 under an ma5 of 4. *)
PanelRows ==
    { PanelRow(t, c, Int2Num(2)) : t \in TickerIds, c \in {NaN, Int2Num(1), Int2Num(3)} }
    \cup { PanelRow(t, Int2Num(3), Int2Num(4)) : t \in TickerIds }

RulePanels ==
    { EmptyFrame } \cup
    { [cols |-> RULE_PANEL_COLUMNS, rows |-> rs] : rs \in SeqsUpTo(PanelRows, MaxPanelRows) }

N_nonexistent == <<"n", "o", "n", "e", "x", "i", "s", "t", "e", "n", "t">>
N_abc == <<"a", "b", "c">>

(* The seven operators of the Rule schema and one that is none of them. *)
SUPPORTED_OPERATORS == {">", "<", "=", ">=", "<=", "CROSS_UP", "CROSS_DOWN"}

RuleDicts ==
    { Rule(f, op, "value", tv) :
        f \in {N_close, N_ticker_id, N_nonexistent},
        op \in SUPPORTED_OPERATORS \cup {"???"},
        tv \in {FloatValue(Int2Num(2)), StrValue(N_abc)} }
    \cup
    { Rule(f, op, "field", tv) :
        f \in {N_close, N_ticker_id, N_nonexistent},
        op \in SUPPORTED_OPERATORS \cup {"???"},
        tv \in {StrValue(N_ma5), StrValue(N_nonexistent)} }

Init_R ==
    /\ df \in RulePanels
    /\ rule \in RuleDicts
    /\ ruleOut = NoOutcome
    /\ IdleF
    /\ IdleS
    /\ IdleC

N_prev_field == <<"p", "r", "e", "v", "_", "f", "i", "e", "l", "d">>

(* The call, had a cross kept the previous values in a column of the panel. *)
ApplyRuleKeepsShift ==
    /\ ruleOut = NoOutcome
    /\ ruleOut' = apply_rule(df, rule)
    /\ df' = IF rule.operator \in CROSS_OPERATORS /\ {rule.field, N_ticker_id} \subseteq Columns(df)
             THEN SetColumn(df, N_prev_field, GroupShift(df, rule.field))
             ELSE df
    /\ UNCHANGED <<rule, fvars, svars, cvars>>

ApplyRule ==
    /\ ruleOut = NoOutcome
    /\ ruleOut' = apply_rule(df, rule)
    /\ UNCHANGED <<df, rule, fvars, svars, cvars>>

Next_R == ApplyRule

SpecRule == Init_R /\ [][Next_R]_vars

----------------------------------------------------------------------------
(* One request: screen_stocks (api/v1/screen.py:17-38) calls run_screen       *)
(* (screener.py:207-298) and turns any exception into an empty response.     *)

Init ==
    /\ \/ db \in FormulaDatabases /\ request \in FormulaRequests
       \/ db \in Databases /\ request \in RuleRequests
    /\ pc = "load"
    /\ df = EmptyFrame
    /\ loaded = EmptyFrame
    /\ flog = << >>
    /\ latest_date = NoDate
    /\ masks = << >>
    /\ rlog = << >>
    /\ combined = << >>
    /\ filtered = << >>
    /\ exc = "none"
    /\ response = NoResponse
    /\ IdleF
    /\ IdleR
    /\ IdleC

(* screener.py:219-229 *)
Load ==
    /\ pc = "load"
    /\ LET fr == IF needs_multi_day(request)
                 THEN load_multi_day_data(db, 2)
                 ELSE load_latest_data(db)
       IN  /\ df' = fr
           /\ loaded' = fr
           /\ IF IsEmpty(fr)
              THEN pc' = "done" /\ response' = ScreenResponse(<< >>, request.logic)
              ELSE pc' = "formulas" /\ UNCHANGED response
    /\ UNCHANGED <<db, request, flog, latest_date, masks, rlog, combined, filtered,
                   exc, fvars, rvars, cvars>>

(* The loader's query fails. *)
LoadFails ==
    /\ pc = "load"
    /\ pc' = "raised"
    /\ exc' = "LoaderError"
    /\ UNCHANGED <<df, db, request, loaded, flog, latest_date, masks, rlog, combined,
                   filtered, response, fvars, rvars, cvars>>

(* What became of a formula: added, or skipped with the error logged. *)
Handled(f, r) == [name |-> f.name, ok |-> ~r.raised, err |-> r.err, tok |-> r.tok]

(* The loop body, had the column been assigned before the failure. *)
TryFormulaPartial(fr, f) ==
    { [r EXCEPT !.df = IF r.raised THEN SetColumn(fr, f.name, Broadcast(fr, NaN))
                       ELSE r.df] :
        r \in safe_eval_formula(fr, f.name, f.formula) }

(* screener.py:233-237: the body of the loop over request.custom_formulas *)
TryFormula(fr, f) == safe_eval_formula(fr, f.name, f.formula)

ApplyFormula ==
    /\ pc = "formulas"
    /\ Len(flog) < Len(request.custom_formulas)
    /\ LET f == request.custom_formulas[Len(flog) + 1]
       IN  \E r \in TryFormula(df, f) :
              /\ df' = r.df
              /\ flog' = Append(flog, Handled(f, r))
    /\ UNCHANGED <<db, request, pc, loaded, latest_date, masks, rlog, combined,
                   filtered, exc, response, fvars, rvars, cvars>>

(* screener.py:240-241 *)
LatestDate ==
    /\ pc = "formulas"
    /\ Len(flog) = Len(request.custom_formulas)
    /\ latest_date' = IF needs_multi_day(request) THEN ColumnMax(df, N_date) ELSE NoDate
    /\ pc' = "rules"
    /\ UNCHANGED <<df, db, request, loaded, flog, masks, rlog, combined, filtered,
                   exc, response, fvars, rvars, cvars>>

(* screener.py:245-247: the body of the loop over request.rules *)
EvaluateRule ==
    /\ pc = "rules"
    /\ Len(masks) < Len(request.rules)
    /\ LET o == apply_rule(df, request.rules[Len(masks) + 1])
       IN  IF o.raised
           THEN pc' = "raised" /\ exc' = o.exc /\ UNCHANGED <<masks, rlog>>
           ELSE /\ masks' = Append(masks, o.mask)
                /\ rlog' = Append(rlog, o.warned)
                /\ UNCHANGED <<pc, exc>>
    /\ UNCHANGED <<df, db, request, loaded, flog, latest_date, combined, filtered,
                   response, fvars, rvars, cvars>>

(* screener.py:250-260 *)
Compose ==
    /\ pc = "rules"
    /\ Len(masks) = Len(request.rules)
    /\ combined' = Combine(df, masks, request.logic)
    /\ pc' = "restrict"
    /\ UNCHANGED <<df, db, request, loaded, flog, latest_date, masks, rlog, filtered,
                   exc, response, fvars, rvars, cvars>>

(* The step, had the rows of every date been kept. *)
RestrictSkipped ==
    /\ pc = "restrict"
    /\ pc' = "filter"
    /\ UNCHANGED <<df, db, request, loaded, flog, latest_date, masks, rlog, combined,
                   filtered, exc, response, fvars, rvars, cvars>>

(* screener.py:263-264 *)
RestrictToLatestDate ==
    /\ pc = "restrict"
    /\ combined' =
          IF needs_multi_day(request)
          THEN LET same == compare_fn("=", Column(df, N_date), Broadcast(df, latest_date))
               IN  [ i \in 1..NRows(df) |-> combined[i] /\ same[i] = "T" ]
          ELSE combined
    /\ pc' = "filter"
    /\ UNCHANGED <<df, db, request, loaded, flog, latest_date, masks, rlog, filtered,
                   exc, response, fvars, rvars, cvars>>

(* screener.py:266 *)
Filter ==
    /\ pc = "filter"
    /\ filtered' = Select(df, combined)
    /\ pc' = "dedup"
    /\ UNCHANGED <<df, db, request, loaded, flog, latest_date, masks, rlog, combined,
                   exc, response, fvars, rvars, cvars>>

(* screener.py:269 *)
Deduplicate ==
    /\ pc = "dedup"
    /\ filtered' = DropDuplicatesKeepLast(filtered)
    /\ pc' = "format"
    /\ UNCHANGED <<df, db, request, loaded, flog, latest_date, masks, rlog, combined,
                   exc, response, fvars, rvars, cvars>>

(* screener.py:272-298 *)
Format ==
    /\ pc = "format"
    /\ LET results == [ i \in 1..Len(filtered) |-> TickerResult(filtered[i]) ]
           failed == { i \in 1..Len(filtered) : ~results[i].ok }
       IN  IF failed # {}
           THEN /\ pc' = "raised"
                /\ exc' = results[SetMin(failed)].exc
                /\ UNCHANGED response
           ELSE /\ pc' = "done"
                /\ response' = ScreenResponse([ i \in 1..Len(filtered) |-> results[i].val ],
                                              request.logic)
                /\ UNCHANGED exc
    /\ UNCHANGED <<df, db, request, loaded, flog, latest_date, masks, rlog, combined,
                   filtered, fvars, rvars, cvars>>

(* The handler, had the exception been let through: no response is made. *)
ExceptionEscapes ==
    /\ pc = "raised"
    /\ pc' = "done"
    /\ UNCHANGED <<df, db, request, loaded, flog, latest_date, masks, rlog, combined,
                   filtered, exc, response, fvars, rvars, cvars>>

(* api/v1/screen.py:36-38 *)
CatchException ==
    /\ pc = "raised"
    /\ pc' = "done"
    /\ response' = ScreenResponse(<< >>, request.logic)
    /\ UNCHANGED <<df, db, request, loaded, flog, latest_date, masks, rlog, combined,
                   filtered, exc, fvars, rvars, cvars>>

Next ==
    \/ Load
    \/ LoadFails
    \/ ApplyFormula
    \/ LatestDate
    \/ EvaluateRule
    \/ Compose
    \/ RestrictToLatestDate
    \/ Filter
    \/ Deduplicate
    \/ Format
    \/ CatchException

Spec == Init /\ [][Next]_vars


----------------------------------------------------------------------------
(* Vocabulary of the claims about the formula sandbox. *)

Ran == verdict # NoVerdict
Tokens == tokenize(formula)

(* [A-Za-z_][A-Za-z0-9_]* *)
IsIdentifier(t) ==
    /\ Len(t) > 0
    /\ t[1] \in IdentStart
    /\ \A i \in 1..Len(t) : t[i] \in IdentChars

(* [0-9]+\.?[0-9]* *)
IsNumericLiteral(t) == Len(t) > 0 /\ t[1] \in Digits /\ IsDecimal(t)

ArithmeticOps == { <<"+">>, <<"-">>, <<"*">>, <<"/">>, <<"(">>, <<")">> }

(* How many characters of s the scanner steps over without a token. *)
DroppedChars(s) == Scan(s).dropped

WithinLimitsT(s, tokens) ==
    Len(s) <= MAX_FORMULA_LENGTH /\ Len(tokens) <= MAX_TOKEN_COUNT

WithinLimits(s) == WithinLimitsT(s, tokenize(s))

(* s, with tokens its tokens, holds only whitelisted field names, numeric    *)
(* literals, operators and whitespace.                                       *)
WhitelistedOnly(s, tokens) ==
    /\ \A i \in 1..Len(tokens) :
          \/ tokens[i] \in ALLOWED_FIELDS
          \/ IsNumericLiteral(tokens[i])
          \/ tokens[i] \in ArithmeticOps
    /\ DroppedChars(s) = 0

CountOf(tokens, k, c) == Cardinality({ i \in 1..k : tokens[i] = <<c>> })

(* No prefix holds more ")" than "(", and the whole holds as many. *)
Balanced(tokens) ==
    /\ \A k \in 1..Len(tokens) : CountOf(tokens, k, ")") <= CountOf(tokens, k, "(")
    /\ CountOf(tokens, Len(tokens), ")") = CountOf(tokens, Len(tokens), "(")

(* C1 (as claimed): an expression within the limits that has an identifier   *)
(* token outside the whitelist fails validation with DisallowedToken.        *)
C1_Claim ==
    Ran =>
      LET tokens == Tokens
      IN  ( /\ WithinLimitsT(formula, tokens)
            /\ \E i \in 1..Len(tokens) :
                  IsIdentifier(tokens[i]) /\ tokens[i] \notin ALLOWED_FIELDS )
          => verdict.err = "DisallowedToken"

(* C2 (as claimed): an expression with a character the scanner does not      *)
(* recognise fails validation, and no such expression reaches df.eval.       *)
C2_Claim ==
    /\ (Ran /\ DroppedChars(formula) > 0) => ~verdict.ok
    /\ \A e \in evalLog : DroppedChars(e) = 0

(* C3 (as claimed): every expression of whitelisted fields, numeric          *)
(* literals, operators and whitespace with balanced parentheses, at most 50  *)
(* tokens and at most 500 characters is accepted.                            *)
C3_Claim ==
    Ran =>
      LET tokens == Tokens
      IN  ( /\ WithinLimitsT(formula, tokens)
            /\ WhitelistedOnly(formula, tokens)
            /\ Balanced(tokens) )
          => verdict.ok

(* C3 (amended): the same, for an expression that holds at least one token;  *)
(* an empty or all-whitespace expression is rejected.                        *)
C3_ValidateAccepts ==
    Ran =>
      LET tokens == Tokens
      IN  /\ ( /\ tokens # << >>
               /\ WithinLimitsT(formula, tokens)
               /\ WhitelistedOnly(formula, tokens)
               /\ Balanced(tokens) )
             => verdict.ok
          /\ tokens = << >> => ~verdict.ok

C3_Witness ==
    /\ verdict.ok
    /\ WhitelistedOnly(formula, Tokens)
    /\ Len(formula) = MAX_FORMULA_LENGTH
    /\ Len(Tokens) = MAX_TOKEN_COUNT

(* C4: an expression whose parentheses are unbalanced (some prefix of its    *)
(* tokens holds more ")" than "(", or the totals differ) is rejected.        *)
C4_RejectsUnbalanced ==
    (Ran /\ verdict.ok) => Balanced(Tokens)

(* As many "(" as ")", closed before opened: only the running depth tells. *)
C4_Witness ==
    /\ verdict.err = "UnbalancedParens"
    /\ LET tokens == Tokens
       IN  CountOf(tokens, Len(tokens), ")") = CountOf(tokens, Len(tokens), "(")

(* C5 (as claimed): an accepted expression is within both limits, one longer *)
(* than 500 characters fails with TooLong, one with more than 50 tokens      *)
(* fails with TooComplex, and df.eval never sees one beyond a limit.         *)
C5_Claim ==
    /\ Ran =>
         LET tokens == Tokens
         IN  /\ verdict.ok => WithinLimitsT(formula, tokens)
             /\ Len(formula) > MAX_FORMULA_LENGTH => verdict.err = "TooLong"
             /\ Len(tokens) > MAX_TOKEN_COUNT => verdict.err = "TooComplex"
    /\ \A e \in evalLog : WithinLimits(e)

(* C5 (amended): an accepted expression is within both limits; one longer    *)
(* than 500 characters fails, with TooLong unless it is blank (then with the *)
(* empty-formula error); one of at most 500 characters with more than 50     *)
(* tokens fails with TooComplex; df.eval never sees one beyond a limit.      *)
C5_Limits ==
    /\ Ran =>
         LET tokens == Tokens
         IN  /\ verdict.ok => WithinLimitsT(formula, tokens)
             /\ Len(formula) > MAX_FORMULA_LENGTH =>
                   verdict.err = (IF IsBlank(formula) THEN "Empty" ELSE "TooLong")
             /\ (Len(formula) <= MAX_FORMULA_LENGTH /\ Len(tokens) > MAX_TOKEN_COUNT) =>
                   verdict.err = "TooComplex"
    /\ \A e \in evalLog : WithinLimits(e)

C5_Witness ==
    /\ verdict.err = "TooComplex"
    /\ Len(Tokens) = MAX_TOKEN_COUNT + 1
    /\ evalRes = "ValueError"
    /\ evalLog = {}

----------------------------------------------------------------------------
(* Vocabulary of the claims about run_screen. *)

Formulas == request.custom_formulas
PastFormulas ==
    \/ pc \in {"rules", "restrict", "filter", "dedup", "format"}
    \/ pc \in {"raised", "done"} /\ ~IsEmpty(loaded)

(* The expression has n among its tokens. *)
References(expr, n) == \E i \in 1..Len(tokenize(expr)) : tokenize(expr)[i] = n

(* Formula i was handled, succeeded, and its name was not a column before. *)
AddedColumn(i) ==
    /\ i \in 1..Len(flog)
    /\ flog[i].ok
    /\ flog[i].name \notin Columns(loaded)
    /\ \A h \in 1..(i - 1) : ~(flog[h].ok /\ flog[h].name = flog[i].name)

(* The step of run_screen that handles the next formula. *)
FormulaStep == pc = "formulas" /\ flog' # flog
NextFormula == Formulas[Len(flog) + 1]
Entry == flog'[Len(flog')]

(* The mask of a comparison rule, computed from the columns of the panel. *)
MaskFromColumns(fr, r) ==
    LET target == IF r.target_type = "field" THEN Column(fr, str_of(r.target_value))
                  ELSE Broadcast(fr, float_of(r.target_value).val)
        cells == compare_fn(r.operator, Column(fr, r.field), target)
    IN  [ i \in 1..NRows(fr) |-> cells[i] = "T" ]

RuleSeesColumn(k, n) ==
    LET r == request.rules[k]
    IN  /\ r.field = n =>
              /\ rlog[k] # "field"
              /\ (r.operator \in OPERATOR_MAP /\ r.target_type = "value")
                    => masks[k] = MaskFromColumns(df, r)
        /\ (r.target_type = "field" /\ str_of(r.target_value) = n
              /\ r.field \in Columns(df) /\ r.operator \in OPERATOR_MAP) =>
              /\ rlog[k] = "none"
              /\ masks[k] = MaskFromColumns(df, r)

LaterFormulaRejected(i) ==
    References(NextFormula.formula, flog[i].name) =>
        /\ ~Entry.ok
        /\ df' = df
        /\ WithinLimits(NextFormula.formula) =>
              /\ Entry.err = "DisallowedToken"
              /\ References(NextFormula.formula, Entry.tok)
              /\ ~TokenAllowed(Entry.tok)

(* C6, as stated: within one request, after a formula has added a derived    *)
(* column n, a later formula whose expression references n is rejected with  *)
(* DisallowedToken and adds no column, whereas a later rule that uses n as    *)
(* its field or as its field target is evaluated against that column.         *)
C6_Claim ==
    /\ [][ FormulaStep => \A i \in 1..Len(flog) : AddedColumn(i) => LaterFormulaRejected(i) ]_vars
    /\ [](\A k \in 1..Len(masks) : \A i \in 1..Len(flog) :
              AddedColumn(i) => RuleSeesColumn(k, flog[i].name))

(* C6, as the code has it: the same for a derived column whose name n the    *)
(* validator does not let through, that is, n is none of the 16 whitelisted   *)
(* names and not a spelling of a number (inf, nan, ...); the rejection is     *)
(* DisallowedToken of a token outside the whitelist whenever the later        *)
(* expression is within the length and token limits.                          *)
C6_StaticWhitelist ==
    /\ [][ FormulaStep =>
              \A i \in 1..Len(flog) :
                  (AddedColumn(i) /\ ~TokenAllowed(flog[i].name)) => LaterFormulaRejected(i) ]_vars
    /\ [](\A k \in 1..Len(masks) : \A i \in 1..Len(flog) :
              AddedColumn(i) => RuleSeesColumn(k, flog[i].name))

(* avg_ma was added, the later formula avg_ma*2 was rejected for the token    *)
(* avg_ma, and the rule on avg_ma got a mask that is not the fail-open one.   *)
C6_Witness ==
    /\ pc = "restrict"
    /\ Len(flog) = 2
    /\ AddedColumn(1) /\ flog[1].name = N_avg_ma
    /\ ~flog[2].ok /\ flog[2].err = "DisallowedToken" /\ flog[2].tok = N_avg_ma
    /\ Len(masks) = 1
    /\ request.rules[1].field = N_avg_ma
    /\ \E i \in 1..Len(masks[1]) : ~masks[1][i]

(* C7, as stated: applying a formula leaves the values of every column of the *)
(* loaded panel unchanged.                                                    *)
C7_Claim ==
    \A c \in Columns(loaded) : c \in Columns(df) /\ Column(df, c) = Column(loaded, c)

(* C8, as stated: a formula named ticker_id or date is never applied, and     *)
(* after the formulas the two columns hold their loaded values.               *)
C8_Claim ==
    /\ \A i \in 1..Len(flog) : flog[i].name \in {N_ticker_id, N_date} => ~flog[i].ok
    /\ PastFormulas =>
          \A c \in {N_ticker_id, N_date} : Column(df, c) = Column(loaded, c)

(* C9: the formulas are handled one by one in request order; a failing one   *)
(* leaves the panel as it was and the request running; once the rules are     *)
(* reached every formula has been handled, the panel is the loaded one        *)
(* extended by the names of those that succeeded, and each mask is the rule   *)
(* applied to that panel.                                                     *)
C9_FailingFormulaSkipped ==
    /\ [][ FormulaStep =>
              /\ flog' = Append(flog, Entry)
              /\ Entry.name = NextFormula.name
              /\ pc' = "formulas" /\ exc' = exc /\ response' = response
              /\ ~Entry.ok => df' = df
              /\ Entry.ok => Columns(df') = Columns(df) \cup {NextFormula.name} ]_vars
    /\ []( /\ Len(flog) <= Len(Formulas)
           /\ \A i \in 1..Len(flog) : flog[i].name = Formulas[i].name
           /\ PastFormulas =>
                 /\ Len(flog) = Len(Formulas)
                 /\ Columns(df) = Columns(loaded)
                       \cup { flog[i].name : i \in { j \in 1..Len(flog) : flog[j].ok } }
                 /\ \A k \in 1..Len(masks) :
                       masks[k] = apply_rule(df, request.rules[k]).mask )

(* A formula failed, the next one added its column, and the rule on that      *)
(* column was evaluated.                                                      *)
C9_Witness ==
    /\ pc = "restrict"
    /\ exc = "none"
    /\ Len(flog) = 2
    /\ ~flog[1].ok
    /\ flog[2].ok /\ flog[2].name = N_avg_ma
    /\ Len(masks) = 1
    /\ request.rules[1].field = N_avg_ma
    /\ rlog[1] = "none"

(* C10: apply_rule fails open: if rule.field is not a column of the panel,    *)
(* or rule.operator is none of the seven supported operators, it raises       *)
(* nothing and returns a mask that is true in every row.                      *)
C10_FailOpen ==
    (ruleOut # NoOutcome
       /\ (rule.field \notin Columns(df) \/ rule.operator \notin SUPPORTED_OPERATORS))
    => /\ ~ruleOut.raised
       /\ ruleOut.mask = [ i \in 1..NRows(df) |-> TRUE ]

(* An unsupported operator on an existing field, in a panel where a           *)
(* comparison would have been false in some row.                              *)
C10_Witness ==
    /\ ruleOut # NoOutcome
    /\ rule.operator \notin SUPPORTED_OPERATORS
    /\ rule.field = N_close
    /\ NRows(df) >= 2
    /\ \E i \in 1..NRows(df) : IsNaN(df.rows[i][N_close])
    /\ \A i \in 1..NRows(df) : ruleOut.mask[i]

----------------------------------------------------------------------------
(* Vocabulary of the claims about apply_rule on its own. *)

Applied == ruleOut # NoOutcome
AllTrue(fr) == [ i \in 1..NRows(fr) |-> TRUE ]
TargetColumn == str_of(rule.target_value)

(* C11, as stated: for every rule with target_type=field whose target column *)
(* is absent from the panel, its field being present, apply_rule returns an   *)
(* all-true mask and raises nothing, for every operator, CROSS_UP and         *)
(* CROSS_DOWN included.                                                       *)
C11_Claim ==
    (Applied /\ rule.target_type = "field" /\ rule.field \in Columns(df)
       /\ TargetColumn \notin Columns(df))
    => /\ ~ruleOut.raised
       /\ ruleOut.mask = AllTrue(df)

----------------------------------------------------------------------------
(* run_screen as a function of the database and of the request, the loader's *)
(* query succeeding: the responses the steps above can end with.             *)

(* screener.py:232-237: the panels the loop over the formulas can leave. *)
RECURSIVE Panels(_, _)
Panels(fr, fs) ==
    IF fs = << >> THEN {fr}
    ELSE UNION { Panels(r.df, Tail(fs)) : r \in TryFormula(fr, Head(fs)) }

(* screener.py:240-298 under the try of api/v1/screen.py:33-38 *)
ResponseOf(fr, req) ==
    LET multi == needs_multi_day(req)
        latest == IF multi THEN ColumnMax(fr, N_date) ELSE NoDate
        outs == [ k \in 1..Len(req.rules) |-> apply_rule(fr, req.rules[k]) ]
    IN  IF \E k \in 1..Len(req.rules) : outs[k].raised
        THEN ScreenResponse(<< >>, req.logic)
        ELSE LET composed == Combine(fr, [ k \in 1..Len(req.rules) |-> outs[k].mask ],
                                     req.logic)
                 same == compare_fn("=", Column(fr, N_date), Broadcast(fr, latest))
                 restricted == IF multi
                               THEN [ i \in 1..NRows(fr) |-> composed[i] /\ same[i] = "T" ]
                               ELSE composed
                 rows == DropDuplicatesKeepLast(Select(fr, restricted))
                 results == [ i \in 1..Len(rows) |-> TickerResult(rows[i]) ]
             IN  IF \E i \in 1..Len(rows) : ~results[i].ok
                 THEN ScreenResponse(<< >>, req.logic)
                 ELSE ScreenResponse([ i \in 1..Len(rows) |-> results[i].val ], req.logic)

(* run_screen from the return of the loader on, under the try of             *)
(* screen_stocks: screener.py:228-298, api/v1/screen.py:33-38.               *)
AfterLoad(fr, req) ==
    IF IsEmpty(fr) THEN { ScreenResponse(<< >>, req.logic) }
    ELSE { ResponseOf(p, req) : p \in Panels(fr, req.custom_formulas) }

(* api/v1/screen.py:17-38 *)
screen_stocks(d, req) ==
    AfterLoad(IF needs_multi_day(req) THEN load_multi_day_data(d, 2)
              ELSE load_latest_data(d),
              req)

(* The steps end with a response of the function. *)
StepsAgree ==
    (pc = "done" /\ exc # "LoaderError") => response \in screen_stocks(db, request)

----------------------------------------------------------------------------
(* A database with more price rows on its latest day than the multi-day      *)
(* loader's query keeps (days * 2000, with days = 2), and the row of ticker  *)
(* 1 on the day before. Every ticker has its tickers row.                    *)

Overflow == 1

CrowdedDay ==
    LET n == 2 * 2000 + Overflow
    IN  [prices |-> << <<1, 1>> >> \o [ i \in 1..n |-> <<i, 2>> ],
         tickers |-> 1..n, chips |-> { <<1, 2>> }]

Init_Crowded ==
    /\ \/ db \in FormulaDatabases /\ request \in FormulaRequests
       \/ db \in Databases /\ request \in RuleRequests
       \/ db = CrowdedDay /\ request = ScreenRequest("AND", << >>, << >>)
    /\ pc = "load"
    /\ df = EmptyFrame
    /\ loaded = EmptyFrame
    /\ flog = << >>
    /\ latest_date = NoDate
    /\ masks = << >>
    /\ rlog = << >>
    /\ combined = << >>
    /\ filtered = << >>
    /\ exc = "none"
    /\ response = NoResponse
    /\ IdleF
    /\ IdleR
    /\ IdleC

SpecCrowded == Init_Crowded /\ [][Next]_vars

----------------------------------------------------------------------------
(* Vocabulary of the claims about the result of a screen. *)

Items(r) == { r.data[i] : i \in 1..Len(r.data) }
InsertAt(s, p, x) == SubSeq(s, 1, p - 1) \o <<x>> \o SubSeq(s, p, Len(s))
WithRule(req, p, r) == [req EXCEPT !.rules = InsertAt(req.rules, p, r)]

(* Rules on a field no panel has: one compared, one crossing. *)
BadRules ==
    { Rule(N_nonexistent, op, "value", FloatValue(Int2Num(2))) : op \in {">", "CROSS_UP"} }

(* C12, as stated: under AND, a rule whose field is not in the panel, added  *)
(* at any place of the list of rules, leaves the set of result items as it   *)
(* is without that rule.                                                     *)
C12_Claim ==
    (pc = "load" /\ request.logic = "AND")
    => \A b \in BadRules : \A p \in 1..(Len(request.rules) + 1) :
          \A r \in screen_stocks(db, request) :
             \A q \in screen_stocks(db, WithRule(request, p, b)) :
                 Items(q) = Items(r)

(* Vocabulary of the claims about cross_up and cross_down. *)

Crossed ==
    /\ Applied
    /\ rule.operator \in CROSS_OPERATORS
    /\ rule.field \in Columns(df)
    /\ ~ruleOut.raised

(* The rows of r's ticker above r, in the order of the panel. *)
Earlier(r) == { j \in 1..(r - 1) : df.rows[j][N_ticker_id] = df.rows[r][N_ticker_id] }
FieldAt(i) == df.rows[i][rule.field]
TargetAt(i) ==
    IF rule.target_type = "field" THEN df.rows[i][TargetColumn]
    ELSE float_of(rule.target_value).val

Present(a, b) == ~IsNull(a) /\ ~IsNull(b)
Under(a, b) == Present(a, b) /\ Less(a, b)
Over(a, b) == Present(a, b) /\ Less(b, a)
AtLeast(a, b) == Present(a, b) /\ ~Less(a, b)
AtMost(a, b) == Present(a, b) /\ ~Less(b, a)

(* C13: cross_up is true at row r exactly when r's ticker has a row above r  *)
(* and, p being the nearest of them, field[p] < target[p] and                *)
(* field[r] >= target[r]; cross_down likewise with > and <=. A missing value *)
(* on either side gives false, and p is never a row of another ticker.       *)
C13_CrossDefinition ==
    Crossed =>
        \A r \in 1..NRows(df) :
            ruleOut.mask[r] <=>
                /\ Earlier(r) # {}
                /\ LET p == SetMax(Earlier(r))
                   IN  IF rule.operator = "CROSS_UP"
                       THEN Under(FieldAt(p), TargetAt(p)) /\ AtLeast(FieldAt(r), TargetAt(r))
                       ELSE Over(FieldAt(p), TargetAt(p)) /\ AtMost(FieldAt(r), TargetAt(r))

(* A cross found over a row of another ticker that lies in between. *)
C13_Witness ==
    /\ Crossed
    /\ \E r \in 1..NRows(df) :
          /\ ruleOut.mask[r]
          /\ SetMax(Earlier(r)) # r - 1
          /\ IF rule.operator = "CROSS_UP"
             THEN Under(FieldAt(r - 1), TargetAt(r - 1))
             ELSE Over(FieldAt(r - 1), TargetAt(r - 1))

(* The rule of the state with the other cross operator, on the same panel. *)
OtherCross ==
    apply_rule(df, [rule EXCEPT !.operator = IF rule.operator = "CROSS_UP"
                                             THEN "CROSS_DOWN" ELSE "CROSS_UP"])

(* C14: no row has cross_up and cross_down both true, and both are false at  *)
(* the first row of every ticker.                                            *)
C14_CrossesExclusive ==
    Crossed =>
        /\ ~OtherCross.raised
        /\ \A r \in 1..NRows(df) :
              /\ ~(ruleOut.mask[r] /\ OtherCross.mask[r])
              /\ Earlier(r) = {} => (~ruleOut.mask[r] /\ ~OtherCross.mask[r])

(* A panel in which a ticker crosses up at one row and down at another. *)
C14_Witness ==
    /\ Crossed
    /\ rule.operator = "CROSS_UP"
    /\ \E r, q \in 1..NRows(df) :
          /\ ruleOut.mask[r]
          /\ OtherCross.mask[q]
          /\ df.rows[r][N_ticker_id] = df.rows[q][N_ticker_id]

(* Vocabulary of the claims about the steps of a screen. *)

Finished == pc = "done" /\ exc # "LoaderError"
TickersOf(rows) == { StrOf(rows[i][N_ticker_id]) : i \in 1..Len(rows) }
ItemTickers == { response.data[i][N_ticker_id] : i \in 1..Len(response.data) }

C16_Composed ==
    (pc = "restrict" /\ request.rules # << >>)
    => /\ Len(masks) = Len(request.rules)
       /\ \A k \in 1..Len(masks) : masks[k] = apply_rule(df, request.rules[k]).mask
       /\ \A i \in 1..NRows(df) :
             combined[i] <=> IF request.logic = "AND"
                             THEN \A k \in 1..Len(masks) : masks[k][i]
                             ELSE \E k \in 1..Len(masks) : masks[k][i]

(* Two rules under AND of which a row matches one and not the other. *)
C16_Witness ==
    /\ pc = "restrict"
    /\ request.logic = "AND"
    /\ Len(masks) = 2
    /\ \E i \in 1..NRows(df) : masks[1][i] /\ ~masks[2][i] /\ ~combined[i]

(* The rows of the panel the result reports: those the mask keeps, less the  *)
(* ones dropped as duplicates.                                               *)
Reported(i) ==
    /\ combined[i]
    /\ \A j \in (i + 1)..NRows(df) :
          combined[j] => df.rows[j][N_ticker_id] # df.rows[i][N_ticker_id]

Answered == pc = "done" /\ exc = "none" /\ ~IsEmpty(loaded)

(* C17, as stated: on a multi-day panel, every reported row is a row of the  *)
(* latest date of the panel as loaded; no history row is reported, under AND *)
(* and under OR.                                                             *)
C17_Claim ==
    (Answered /\ needs_multi_day(request))
    => \A i \in 1..NRows(df) :
          Reported(i) => loaded.rows[i][N_date] = ColumnMax(loaded, N_date)

(* The mask as composed from the masks of the rules, before the restriction  *)
(* to the latest date.                                                       *)
Composed == Combine(df, masks, request.logic)
NoKeyFormula ==
    \A k \in 1..Len(request.custom_formulas) :
        request.custom_formulas[k].name \notin {N_ticker_id, N_date}
LoadedTickers == { loaded.rows[i][N_ticker_id] : i \in 1..NRows(loaded) }
RowsOf(t) == { i \in 1..NRows(loaded) : loaded.rows[i][N_ticker_id] = t }
ItemsOf(t) ==
    { k \in 1..Len(response.data) : response.data[k][N_ticker_id] = StrOf(t) }
OnTwoDates(t) ==
    \E i, j \in RowsOf(t) :
        /\ loaded.rows[i][N_date] # loaded.rows[j][N_date]
        /\ Composed[i]
        /\ Composed[j]
LastRow(t) ==
    CHOOSE i \in RowsOf(t) :
        \A j \in RowsOf(t) : ~Less(loaded.rows[i][N_date], loaded.rows[j][N_date])
OneItemPerTicker ==
    \A k, l \in 1..Len(response.data) :
        k # l => response.data[k][N_ticker_id] # response.data[l][N_ticker_id]
IsItemOf(k, i) == response.data[k] = TickerResult(df.rows[i]).val

WellFormed(r) == r.matched_count = Len(r.data) /\ r.logic = request.logic

(* C19: every exception, of the loader or of a step of run_screen, is caught *)
(* and answered with {0, [], request.logic}; every response is well-formed:  *)
(* matched_count is the number of items, logic is the request's, and the     *)
(* items are those of all the rows kept or none.                             *)
C19_NeverRaises ==
    /\ [](pc = "done" =>
            /\ WellFormed(response)
            /\ exc # "none" => response = ScreenResponse(<< >>, request.logic)
            /\ exc = "none" =>
                  response.data = [ i \in 1..Len(filtered) |-> TickerResult(filtered[i]).val ])
    /\ [][pc = "raised" => (pc' = "done" /\ response' = ScreenResponse(<< >>, request.logic))]_vars

(* A response after the second of two rows failed in Format: no item, not    *)
(* the item of the first row.                                                *)
C19_Witness ==
    /\ pc = "done"
    /\ exc = "ValidationError"
    /\ Len(filtered) = 2
    /\ TickerResult(filtered[1]).ok
    /\ response = ScreenResponse(<< >>, request.logic)

----------------------------------------------------------------------------
(* Several invocations of screen_stocks on one event loop. An invocation is  *)
(* suspended only at an await, and the awaits of run_screen are the queries  *)
(* of its loader; a step below is the return of one query and the code that  *)
(* runs from there to the next await or to the return of screen_stocks.      *)

MaxCalls == 2

NewCall(req) ==
    [request |-> req, pc |-> "start", day |-> 0, df |-> EmptyFrame,
     loaded |-> EmptyFrame, failed |-> FALSE, overlapped |-> FALSE,
     response |-> NoResponse]

(* A rule on avg_ma without the formula that adds it and with it, and a rule *)
(* that needs the multi-day panel.                                           *)
ConcurrentRequests ==
    { r \in RuleRequests :
        /\ r.logic = "AND"
        /\ \/ /\ r.rules = << Rule(N_avg_ma, ">", "value", FloatValue(Int2Num(2))) >>
              /\ \A k \in 1..Len(r.custom_formulas) : r.custom_formulas[k].name = N_avg_ma
           \/ /\ r.rules = << Rule(N_close, "CROSS_UP", "value", FloatValue(Int2Num(2))) >>
              /\ r.custom_formulas = << >> }

(* Two days of ticker 1, and the latest day of both tickers. *)
ConcurrentDatabases == { d \in FormulaDatabases : Len(d.prices) = 2 }

Init_C ==
    /\ db \in ConcurrentDatabases
    /\ calls \in [1..MaxCalls -> { NewCall(r) : r \in ConcurrentRequests }]
    /\ df = EmptyFrame
    /\ request = [logic |-> "AND", rules |-> << >>, custom_formulas |-> << >>]
    /\ pc = "idle"
    /\ loaded = EmptyFrame
    /\ flog = << >>
    /\ latest_date = NoDate
    /\ masks = << >>
    /\ rlog = << >>
    /\ combined = << >>
    /\ filtered = << >>
    /\ exc = "none"
    /\ response = NoResponse
    /\ IdleF
    /\ IdleR

Loading == {"prices", "tickers", "chips"}

(* The locals, had df been one name shared by the invocations. *)
Globals(cs, c, new) ==
    [ k \in DOMAIN cs |-> IF k = c THEN new ELSE [cs[k] EXCEPT !.df = new.df] ]

(* The locals of invocation c after its step; those of the others are theirs. *)
Locals(cs, c, new) == [cs EXCEPT ![c] = new]

(* One step of invocation c, which leaves it as new. *)
Resume(c, new) ==
    /\ calls' = Locals(calls, c,
                       [new EXCEPT !.overlapped =
                            calls[c].overlapped
                              \/ \E k \in DOMAIN calls : k # c /\ calls[k].pc \in Loading])
    /\ UNCHANGED <<df, fvars, rvars, svars>>

(* The loader returned fr: run_screen runs to its end. *)
Finish(c, fr) ==
    \E r \in AfterLoad(fr, calls[c].request) :
        Resume(c, [calls[c] EXCEPT !.pc = "done", !.df = fr, !.loaded = fr,
                                   !.response = r])

(* The locals of c when its loader returns fr, before run_screen goes on. *)
Loaded(c, fr) == [calls[c] EXCEPT !.pc = "loaded", !.df = fr]

(* The operators below give the locals of c at the return of one query, as   *)
(* a set: empty when c is not waiting on that query.                         *)

(* screener.py:27-33: load_latest_data's query of the latest date *)
QueryLatestDate(c) ==
    IF calls[c].pc = "start" /\ ~needs_multi_day(calls[c].request)
    THEN { IF db.prices = << >> THEN Loaded(c, EmptyFrame)
           ELSE [calls[c] EXCEPT !.pc = "prices", !.day = MaxDay(db.prices)] }
    ELSE {}

(* screener.py:36-60 and 95-124: the query of the price rows *)
QueryPrices(c) ==
    LET multi == needs_multi_day(calls[c].request)
        days == 2
        rows == IF multi THEN Take(OrderByDateDesc(db.prices), days * 2000)
                ELSE SelectSeq(db.prices, LAMBDA k : k[2] = calls[c].day)
    IN  IF calls[c].pc = (IF multi THEN "start" ELSE "prices")
        THEN { IF rows = << >> THEN Loaded(c, EmptyFrame)
               ELSE [calls[c] EXCEPT !.pc = "tickers", !.df = PriceFrame(rows),
                                     !.day = MaxDay(rows)] }
        ELSE {}

(* screener.py:63-69 and 129-135: the query of the tickers, and the merge *)
QueryTickers(c) ==
    IF calls[c].pc = "tickers"
    THEN { [calls[c] EXCEPT !.pc = "chips", !.df = MergeTickers(db, calls[c].df)] }
    ELSE {}

(* screener.py:72-89 and 138-157: the query of the chips, the merge and the  *)
(* sort of the multi-day panel                                               *)
QueryChips(c) ==
    IF calls[c].pc = "chips"
    THEN LET merged == MergeChips(db, calls[c].df, calls[c].day)
         IN  { Loaded(c, IF needs_multi_day(calls[c].request)
                         THEN [cols |-> merged.cols,
                               rows |-> SortByTickerAndDate(merged.rows)]
                         ELSE merged) }
    ELSE {}

(* A query of the loader fails: api/v1/screen.py:36-38 *)
QueryFails(c) ==
    IF calls[c].pc \in {"start"} \cup Loading
    THEN { [calls[c] EXCEPT !.pc = "done", !.failed = TRUE,
                            !.response = ScreenResponse(<< >>, calls[c].request.logic)] }
    ELSE {}

(* One query of invocation c returns, and c runs to its next await: another  *)
(* query of the loader, or none, when the loader returned and run_screen     *)
(* runs to the return of screen_stocks.                                      *)
Next_C ==
    \E c \in DOMAIN calls :
        \E new \in QueryLatestDate(c) \cup QueryPrices(c) \cup QueryTickers(c)
                     \cup QueryChips(c) \cup QueryFails(c) :
            IF new.pc = "loaded" THEN Finish(c, new.df) ELSE Resume(c, new)

SpecConcurrent == Init_C /\ [][Next_C]_vars

(* C20: whatever the interleaving of the invocations at the awaits of their  *)
(* loaders, the response of each is a response of running it alone, on the   *)
(* panel it loaded, and a step of one invocation changes no local of         *)
(* another.                                                                  *)
C20_Isolated ==
    [][\A c \in DOMAIN calls :
          calls'[c] # calls[c]
          => /\ \A k \in DOMAIN calls \ {c} : calls'[k] = calls[k]
             /\ (calls'[c].pc = "done" /\ ~calls'[c].failed)
                => /\ calls'[c].response \in screen_stocks(db, calls[c].request)
                   /\ calls'[c].response
                         \in AfterLoad(calls'[c].loaded, calls[c].request)]_vars

(* Two invocations, one on the snapshot and one on the multi-day panel, each *)
(* suspended while the other was loading, both answered with items.          *)
C20_Witness ==
    \E c, k \in DOMAIN calls :
        /\ calls[c].pc = "done" /\ calls[k].pc = "done"
        /\ ~calls[c].failed /\ ~calls[k].failed
        /\ calls[c].overlapped /\ calls[k].overlapped
        /\ ~needs_multi_day(calls[c].request)
        /\ needs_multi_day(calls[k].request)
        /\ calls[c].response.data # << >>
        /\ calls[k].response.data # << >>

----------------------------------------------------------------------------
(* Vocabulary of the claims about the multi-day loader. *)

DaysOf(keys) == { keys[i][2] : i \in 1..Len(keys) }

(* The n most recent trading dates of the price rows. *)
RECURSIVE RecentDays(_, _)
RecentDays(ds, n) ==
    IF n = 0 \/ ds = {} THEN {}
    ELSE {SetMax(ds)} \cup RecentDays(ds \ {SetMax(ds)}, n - 1)

PanelKeys(fr) == { <<fr.rows[i][N_ticker_id].n, fr.rows[i][N_date].n>> : i \in 1..NRows(fr) }

SortedByTickerAndDate(fr) ==
    \A i \in 1..(NRows(fr) - 1) :
        LET a == fr.rows[i]
            b == fr.rows[i + 1]
        IN  \/ a[N_ticker_id].n < b[N_ticker_id].n
            \/ a[N_ticker_id].n = b[N_ticker_id].n /\ a[N_date].n <= b[N_date].n

(* C21, as stated: the panel of load_multi_day_data(days = 2) is sorted by   *)
(* (ticker_id, date) and, whatever the number of tickers, holds every row    *)
(* of the 2 most recent trading dates of every ticker that has a row on each *)
(* of those dates.                                                           *)
C21_Claim ==
    pc = "load"
    => LET panel == load_multi_day_data(db, 2)
           stored == { db.prices[i] : i \in 1..Len(db.prices) }
           recent == RecentDays(DaysOf(db.prices), 2)
           keys == PanelKeys(panel)
       IN  /\ SortedByTickerAndDate(panel)
           /\ \A k \in stored :
                 (k[2] \in recent /\ \A d \in recent : <<k[1], d>> \in stored)
                 => k \in keys

----------------------------------------------------------------------------
(* Vocabulary of the claims about the masks. *)

(* One element per row of the panel, each of them true or false. *)
IsMask(fr, m) == DOMAIN m = 1..NRows(fr) /\ \A i \in 1..NRows(fr) : m[i] \in BOOLEAN

(* apply_rule compared: it did not fail open and raised nothing. *)
Compares ==
    /\ Applied
    /\ ~ruleOut.raised
    /\ rule.field \in Columns(df)
    /\ rule.operator \in SUPPORTED_OPERATORS
    /\ rule.target_type = "field" => TargetColumn \in Columns(df)

(* Row i lacks a value the rule compares: its own, or for a cross that of    *)
(* the previous row of its ticker, or that row itself.                       *)
MissingAt(i) ==
    \/ IsNull(FieldAt(i))
    \/ IsNull(TargetAt(i))
    \/ /\ rule.operator \in CROSS_OPERATORS
       /\ \/ Earlier(i) = {}
          \/ IsNull(FieldAt(SetMax(Earlier(i))))
          \/ IsNull(TargetAt(SetMax(Earlier(i))))

(* Rules whose masks are composed with the mask of the state: a comparison,  *)
(* a cross with a column, and one that fails open.                           *)
Companions ==
    { Rule(N_close, ">", "value", FloatValue(Int2Num(2))),
      Rule(N_close, "CROSS_DOWN", "field", StrValue(N_ma5)),
      Rule(N_nonexistent, "<", "value", FloatValue(Int2Num(2))) }

(* C22: a mask returned by apply_rule, cross_up and cross_down included, has *)
(* one element per row of the panel, each true or false; where the rule      *)
(* compares, a row with a missing value or a missing previous value is       *)
(* false; and the mask composed of it and of other masks, under AND or OR,   *)
(* has one boolean per row as well.                                          *)
C22_MasksTotal ==
    (Applied /\ ~ruleOut.raised)
    => /\ IsMask(df, ruleOut.mask)
       /\ Compares => \A i \in 1..NRows(df) : MissingAt(i) => ~ruleOut.mask[i]
       /\ \A l \in {"AND", "OR"} :
             /\ IsMask(df, Combine(df, << >>, l))
             /\ IsMask(df, Combine(df, <<ruleOut.mask>>, l))
             /\ \A c \in Companions :
                   LET o == apply_rule(df, c)
                   IN  /\ ~o.raised
                       /\ IsMask(df, Combine(df, <<ruleOut.mask, o.mask>>, l))

(* A cross with a column that is true in one row, on a panel with a row      *)
(* whose close is missing and a row that is the first of its ticker.         *)
C22_Witness ==
    /\ Compares
    /\ rule.operator = "CROSS_UP"
    /\ rule.target_type = "field"
    /\ NRows(df) = 3
    /\ \E i, j \in 1..NRows(df) :
          /\ ruleOut.mask[i]
          /\ IsNull(FieldAt(j))
          /\ ~ruleOut.mask[j]

----------------------------------------------------------------------------
(* Vocabulary of the claims about the load of a screen. *)

HasCrossRule ==
    \E i \in 1..Len(request.rules) : request.rules[i].operator \in {"CROSS_UP", "CROSS_DOWN"}

(* The panel of the loader the request calls for. *)
PanelCalledFor == IF HasCrossRule THEN load_multi_day_data(db, 2) ELSE load_latest_data(db)

(* A formula was applied or skipped, or a rule was evaluated. *)
Evaluating == flog # << >> \/ masks # << >> \/ rlog # << >> \/ pc \in {"rules", "restrict"}

(* C23: a screen loads once, with the multi-day loader iff a rule of the     *)
(* request is a CROSS_UP or a CROSS_DOWN and with the snapshot loader        *)
(* otherwise; the panel never changes after the load, and formulas and       *)
(* rules are evaluated only once it is there, over all of its rows.          *)
C23_OneLoad ==
    /\ [](pc = "load" => (flog = << >> /\ masks = << >> /\ rlog = << >> /\ IsEmpty(loaded)))
    /\ []((pc # "load" /\ exc # "LoaderError") => loaded = PanelCalledFor)
    /\ [](Evaluating => (pc # "load" /\ ~IsEmpty(loaded) /\ NRows(df) = NRows(loaded)))
    /\ [][pc # "load" => (pc' # "load" /\ loaded' = loaded)]_vars

(* The second of two rules is a cross, and both are evaluated on a panel     *)
(* with the rows of two dates.                                               *)
C23_Witness ==
    /\ pc = "rules"
    /\ Len(request.rules) = 2
    /\ Len(masks) = 2
    /\ request.rules[1].operator \notin {"CROSS_UP", "CROSS_DOWN"}
    /\ request.rules[2].operator = "CROSS_UP"
    /\ \E i, j \in 1..NRows(loaded) : loaded.rows[i][N_date] # loaded.rows[j][N_date]

(* The loader returned a panel without rows. *)
LoadedNothing == pc # "load" /\ exc # "LoaderError" /\ loaded.rows = << >>

(* C24: when the loader returns an empty panel the screen is over at once:   *)
(* the response has matched_count 0, no items and the logic of the request,  *)
(* and no formula was applied and no rule evaluated, whatever the request    *)
(* holds.                                                                    *)
C24_EmptyPanel ==
    LoadedNothing
    => /\ pc = "done"
       /\ exc = "none"
       /\ response = [matched_count |-> 0, data |-> << >>, logic |-> request.logic]
       /\ flog = << >> /\ masks = << >> /\ rlog = << >>
       /\ df = loaded

(* An empty database, asked with a formula and two rules under OR. *)
C24_Witness ==
    /\ LoadedNothing
    /\ db.prices = << >>
    /\ request.logic = "OR"
    /\ request.custom_formulas # << >>
    /\ Len(request.rules) = 2
    /\ response.logic = "OR"

----------------------------------------------------------------------------
(* Vocabulary of the claims about a rule that fails. *)

(* A target_value that float() rejects, and a comparison of the names, which *)
(* are texts, with a number.                                                 *)
FailingRules ==
    { Rule(N_close, ">", "value", StrValue(N_abc)),
      Rule(N_name, ">", "value", FloatValue(Int2Num(2))) }

(* C25, as stated: a rule whose evaluation fails costs at most its own mask. *)
(* Under OR the rows the other rules match are then still in the result:     *)
(* adding such a rule at any place of the list removes no item, and the      *)
(* response is not emptied by it.                                            *)
C25_Claim ==
    (pc = "load" /\ request.logic = "OR" /\ request.rules # << >>)
    => \A b \in FailingRules : \A p \in 1..(Len(request.rules) + 1) :
          \A r \in screen_stocks(db, request) :
             \A q \in screen_stocks(db, WithRule(request, p, b)) :
                 Items(r) \subseteq Items(q)

----------------------------------------------------------------------------
(* C26: a call of apply_rule, and with it of a comparison, of cross_up or of *)
(* cross_down, leaves the panel as it was: the same columns, and in each of  *)
(* them the same values; no column of previous values is left behind.        *)
C26_NoMutation ==
    [][ruleOut' # ruleOut
       => /\ Columns(df') = Columns(df)
          /\ NRows(df') = NRows(df)
          /\ \A c \in Columns(df) : Column(df', c) = Column(df, c)]_vars

(* A cross against a column that returned a mask with a true row, the panel  *)
(* still with its three columns.                                             *)
C26_Witness ==
    /\ Crossed
    /\ rule.target_type = "field"
    /\ TargetColumn \in Columns(df)
    /\ \E i \in 1..NRows(df) : ruleOut.mask[i]
    /\ Columns(df) = RULE_PANEL_COLUMNS

----------------------------------------------------------------------------
(* A whitelisted field name with "(" as the next token. *)
CallLike(tokens) ==
    \E i \in 1..(Len(tokens) - 1) : tokens[i] \in ALLOWED_FIELDS /\ tokens[i + 1] = <<"(">>

(* C27: validate_formula accepts an expression in which a whitelisted name   *)
(* is followed by a parenthesised group, such as close(ma5), when its tokens *)
(* are whitelisted one by one, its parentheses balance and it is within the  *)
(* limits: no grammar is checked beyond that.                                *)
C27_CallSyntaxAccepted ==
    Ran =>
      LET tokens == Tokens
      IN  ( /\ CallLike(tokens)
            /\ WithinLimitsT(formula, tokens)
            /\ WhitelistedOnly(formula, tokens)
            /\ Balanced(tokens) )
          => verdict = Accept

(* close(ma5), accepted. *)
C27_Witness ==
    /\ Ran
    /\ formula = N_close \o <<"(">> \o N_ma5 \o <<")">>
    /\ CallLike(Tokens)
    /\ verdict = Accept

----------------------------------------------------------------------------
(* Screens whose formulas fill the numeric fields of the result: a count     *)
(* field with an infinity, with a fraction and with a negative fraction, a   *)
(* count field with a NaN (inf - inf), a float field with a long fraction.   *)

FormatFormulas ==
    { Formula(N_foreign_buy, N_close \o <<"/", "0">>),
      Formula(N_trust_buy, N_close \o <<"/", "2">>),
      Formula(N_trust_buy, <<"0", "-">> \o N_close \o <<"/", "2">>),
      Formula(N_margin_balance, N_close \o <<"/", "0", "-">> \o N_close \o <<"/", "0">>),
      Formula(N_eps, N_close \o <<"/", "3">>) }

FormatRequests ==
    { ScreenRequest("AND", rs, fs) :
        rs \in { << >>, << Rule(N_close, ">", "value", FloatValue(Int2Num(2))) >> },
        fs \in SeqsUpTo(FormatFormulas, MaxFormulas) }

Init_Format ==
    /\ db \in FormulaDatabases
    /\ request \in FormatRequests
    /\ pc = "load"
    /\ df = EmptyFrame
    /\ loaded = EmptyFrame
    /\ flog = << >>
    /\ latest_date = NoDate
    /\ masks = << >>
    /\ rlog = << >>
    /\ combined = << >>
    /\ filtered = << >>
    /\ exc = "none"
    /\ response = NoResponse
    /\ IdleF
    /\ IdleR
    /\ IdleC

SpecFormat == Init_Format /\ [][Next]_vars

(* What the result is to hold for a cell of a float field and of a count     *)
(* field: null for a missing value and for one that cannot be converted,     *)
(* else the number, rounded to 4 decimals or cut to its integer part.        *)
ReportedFloat(v) == IF IsNull(v) THEN None ELSE Round4(v)
ReportedCount(v) ==
    IF IsNull(v) \/ IsInf(v) THEN None
    ELSE Int2Num(Sign(v.n) * (Abs(v.n) \div v.d))

(* The screen matched rows and went through Format, and its formulas added   *)
(* columns the loaded panel did not have.                                    *)
Formatted ==
    /\ pc = "done"
    /\ exc # "LoaderError"
    /\ filtered # << >>
    /\ \A k \in 1..Len(request.custom_formulas) :
          request.custom_formulas[k].name \notin Columns(loaded)

(* C28, as stated: every matched row is reported, with null for a missing    *)
(* number and never 0 or NaN, a float field rounded to 4 decimals, a count   *)
(* field as an integer, and null for a value that cannot be converted.       *)
C28_Claim ==
    Formatted
    => /\ Len(response.data) = Len(filtered)
       /\ \A i \in 1..Len(response.data) :
             /\ \A c \in FLOAT_FIELDS :
                   response.data[i][c] = ReportedFloat(RowGet(filtered[i], c, None))
             /\ \A c \in INT_FIELDS :
                   response.data[i][c] = ReportedCount(RowGet(filtered[i], c, None))

----------------------------------------------------------------------------
(* Screens with crosses of the chip columns: two days of ticker 1, the       *)
(* latest day of both tickers, and two days of both, with the chips of       *)
(* ticker 1 on the latest day, on both days, or on the earlier day only.     *)

ChipDatabases ==
    { [prices |-> p, tickers |-> {1, 2}, chips |-> c] :
        p \in { << <<1, 1>>, <<1, 2>> >>,
                << <<1, 2>>, <<2, 2>> >>,
                << <<2, 2>>, <<1, 1>>, <<2, 1>>, <<1, 2>> >> },
        c \in { { <<1, 2>> }, { <<1, 1>>, <<1, 2>>, <<2, 2>> }, { <<1, 1>> } } }

ChipCrossRules ==
    { Rule(N_foreign_buy, "CROSS_UP", "value", FloatValue(Int2Num(2))),
      Rule(N_foreign_buy, "CROSS_DOWN", "value", FloatValue(Int2Num(7))),
      Rule(N_foreign_buy, "CROSS_UP", "field", StrValue(N_trust_buy)),
      Rule(N_trust_buy, "CROSS_DOWN", "field", StrValue(N_foreign_buy)) }

ChipRequests ==
    { ScreenRequest(l, rs, fs) :
        l \in {"AND", "OR"},
        rs \in SeqsUpTo(ChipCrossRules
                          \cup { Rule(N_close, ">", "value", FloatValue(Int2Num(2))) },
                        MaxRules),
        fs \in { << >> } \cup { <<f>> : f \in { g \in FormulaPool : g.name = N_avg_ma } } }

Init_Chips ==
    /\ db \in ChipDatabases
    /\ request \in ChipRequests
    /\ pc = "load"
    /\ df = EmptyFrame
    /\ loaded = EmptyFrame
    /\ flog = << >>
    /\ latest_date = NoDate
    /\ masks = << >>
    /\ rlog = << >>
    /\ combined = << >>
    /\ filtered = << >>
    /\ exc = "none"
    /\ response = NoResponse
    /\ IdleF
    /\ IdleR
    /\ IdleC

SpecChips == Init_Chips /\ [][Next]_vars

(* A cross of a chip column with a number or with a chip column. *)
IsChipCross(r) ==
    /\ r.operator \in {"CROSS_UP", "CROSS_DOWN"}
    /\ r.field \in CHIP_COLUMNS
    /\ r.target_type = "field" => str_of(r.target_value) \in CHIP_COLUMNS

(* The multi-day panel was loaded, with the chips of its latest date. *)
ChipsLoaded == pc # "load" /\ HasCrossRule /\ CHIP_COLUMNS \subseteq Columns(loaded)

(* C29: in a multi-day panel that has the chip columns, each of them holds   *)
(* one value on all the rows of a ticker; the mask of a cross of a chip      *)
(* column with a number or with a chip column is then false in every row,    *)
(* and a screen in which such a rule must hold, or in which all the rules    *)
(* are such, returns no item.                                                *)
C29_ChipCrossNeverFires ==
    ChipsLoaded
    => /\ \A i, j \in 1..NRows(loaded) :
             loaded.rows[i][N_ticker_id] = loaded.rows[j][N_ticker_id]
             => \A c \in CHIP_COLUMNS : loaded.rows[i][c] = loaded.rows[j][c]
       /\ \A k \in 1..Len(masks) :
             IsChipCross(request.rules[k]) => \A i \in 1..NRows(df) : ~masks[k][i]
       /\ (pc = "done" /\ exc = "none"
             /\ IF request.logic = "AND"
                THEN \E k \in 1..Len(request.rules) : IsChipCross(request.rules[k])
                ELSE \A k \in 1..Len(request.rules) : IsChipCross(request.rules[k]))
          => response.data = << >>

(* Two days of both tickers, the chips of ticker 1 loaded: a cross of        *)
(* foreign_buy was evaluated, and under OR the other rule alone gave the     *)
(* item of the result.                                                       *)
C29_Witness ==
    /\ ChipsLoaded
    /\ pc = "done"
    /\ exc = "none"
    /\ NRows(loaded) = 4
    /\ request.logic = "OR"
    /\ Len(request.rules) = 2
    /\ IsChipCross(request.rules[1])
    /\ request.rules[1].field = N_foreign_buy
    /\ ~IsChipCross(request.rules[2])
    /\ \E i \in 1..NRows(loaded) : ~IsNull(loaded.rows[i][N_foreign_buy])
    /\ response.data # << >>

----------------------------------------------------------------------------
(* Vocabulary of the claim about a rule that fails open under OR. *)

(* The panel run_screen loads for a request: screener.py:223-226. *)
PanelOf(d, req) ==
    IF needs_multi_day(req) THEN load_multi_day_data(d, 2) ELSE load_latest_data(d)

(* The tickers with a row on the latest date of a panel. *)
OnLatestDate(fr) ==
    { fr.rows[i][N_ticker_id] :
        i \in { j \in 1..NRows(fr) : fr.rows[j][N_date] = ColumnMax(fr, N_date) } }

OneItemEach(r, fr) ==
    \A t \in OnLatestDate(fr) :
        Cardinality({ k \in 1..Len(r.data) : r.data[k][N_ticker_id] = StrOf(t) }) = 1

(* Under OR, a rule of the request is on a field the panel has not. *)
OpenUnderOr ==
    /\ request.logic = "OR"
    /\ ~IsEmpty(loaded)
    /\ \E k \in 1..Len(request.rules) : request.rules[k].field \notin Columns(df)

(* C30, as stated: under OR, when a rule of the request fails open, the       *)
(* composed mask is all-true and the result has one item for every ticker     *)
(* with a row on the latest date of the panel, whatever the other rules are   *)
(* and wherever the failing rule stands: so also when another rule, one whose *)
(* evaluation raises, is added at any place next to it.                       *)
C30_Claim ==
    /\ (OpenUnderOr /\ pc = "restrict") => combined = AllTrue(df)
    /\ (OpenUnderOr /\ pc = "done") => OneItemEach(response, df)
    /\ (pc = "load" /\ request.logic = "OR")
       => \A b \in BadRules : \A o \in FailingRules :
             \A p \in 1..(Len(request.rules) + 1) : \A q \in 1..(Len(request.rules) + 2) :
                 LET req == WithRule(WithRule(request, p, b), q, o)
                 IN  \A r \in screen_stocks(db, req) : OneItemEach(r, PanelOf(db, req))

====
